---- MODULE Spec2Model ----
(***************************************************************************)
(* Verification model of the snarkVM core: short-Weierstrass affine point  *)
(* (de)serialization, the Pedersen CRH gadget (plain, masked, compressed)  *)
(* and the Fiat-Shamir algebraic sponge rng gadget.                         *)
(*                                                                         *)
(* Three specifications share the variables:                               *)
(*   SpecSer  affine point write / read   (curves/templates)               *)
(*   SpecCRH  Pedersen CRH gadget         (gadgets/algorithms/crh)         *)
(*   SpecFS   Fiat-Shamir rng gadget      (marlin/fiat_shamir)             *)
(* Each specification leaves the variables of the other two at their idle  *)
(* values.                                                                 *)
(***************************************************************************)
EXTENDS Integers, Sequences, FiniteSets, TLC

VARIABLES
    \* ---- affine point serialization
    family,     \* "jacobian" | "projective": which template's GroupAffine
    curve,      \* [a, b]: the SWModelParameters coefficients
    wrote,      \* << >> or <<P>>: the point the last write serialized
    buf,        \* the byte buffer (one byte per field element, one flag byte)
    res,        \* result of the last read of buf
    \* ---- Pedersen CRH gadget
    params,     \* parameters.parameters.bases
    maskParams, \* mask_parameters.parameters.bases
    crhOp,      \* the last gadget call ("none" when none has run)
    crhIn,      \* its input bytes
    crhMask,    \* its mask bytes (masked variants)
    crhOut,     \* its outcome
    cs,         \* the constraint system: the namespaces entered, in order
    \* ---- Fiat-Shamir rng
    fsOp,       \* the last Fiat-Shamir operation ("none" when none has run)
    fsTy,       \* OptimizationType of the last compress
    fsLimbs,    \* the (limb, num_of_additions) sequence of the last compress
    fsNum,      \* num_bits of the last squeeze
    fsNative,   \* native output of the last operation
    fsGadget,   \* in-circuit output of the last operation
    fsBytes,    \* bytes absorbed natively
    sponge,     \* the native rng's sponge  (pfs.s)
    spongeVar,  \* the gadget rng's sponge  (self.s)
    fsShort,    \* outputs_short_elements of the last element squeeze
    fsTarget,   \* modulus of the non-native field F of the last element squeeze
    fsElems,    \* dest_gadgets of the last element squeeze (limb vectors)
    fsElemBits, \* dest_bits of the last element squeeze
    \* ---- algebraic sponge driven call by call
    spOp,       \* the last sponge call ("new" | "absorb" | "squeeze")
    spIn,       \* << >> or <<e>>: the element the last absorb added
    spOut,      \* << >> or <<e>>: the element the last squeeze returned
    spPrev,     \* the sponge as it was before the last call
    spCalls,    \* number of calls made on the sponge
    \* ---- Pedersen parameter setup
    setupSamples, \* the group elements G::rand(rng) returned during the last setup
    setupOut,   \* the parameters the last setup returned
    \* ---- curve arithmetic
    ecOp,       \* the last curve operation ("none" when none has run)
    ecIn,       \* its operands
    ecOut,      \* its result
    bnV,        \* the slice v of a parallel batch_normalization
    bnPc,       \* per element: where its worker is in the final pass
    bnZ2,       \* per element: the worker's local z2
    \* ---- Pedersen parameter serialization
    parKind,    \* "crh" | "commitment": which parameter struct
    parOp,      \* the last call ("none" | "write" | "tamper" | "read" | "gadget")
    parVal,     \* << >> or <<p>>: the parameters the last write serialized
    parBuf,     \* the bytes behind the reader
    parWritten, \* how many of them the last write emitted
    parRes,     \* result of the last read of parBuf
    parOut,     \* outcome of the CRH gadget run on the parameters read
    \* ---- synthesis of the GM17 verifier and of the element squeeze
    gmOp,       \* the last function run ("none" when none has run)
    gmIn,       \* << >> or <<its arguments and the sub-gadget call that fails>>
    gmOut,      \* << >> or <<its outcome>>
    \* ---- ripple-carry adder
    rcaOp,      \* "none" | "add_bits"
    rcaA,       \* self: little-endian bits
    rcaB,       \* other: little-endian bits
    rcaOut,     \* the bits add_bits returned
    \* ---- block transactions
    txs,        \* Transactions.0: the list
    txOp,       \* the last call ("new" | "conflicts" | "push")
    txArg,      \* << >> or <<tx>>: its argument
    txRes,      \* << >> or <<b>>: what conflicts returned
    txChecked,  \* every push so far followed a conflicts(tx) = false on the same tx
    \* ---- absorb_bytes of the gadget rng
    abIn,       \* << >> or <<[cf, bytes, other]>>: the native field and two inputs
    abOut       \* << >> or <<[run, other]>>: what absorb_bytes did on each input

serVars == <<family, curve, wrote, buf, res>>
crhVars == <<params, maskParams, crhOp, crhIn, crhMask, crhOut, cs>>
fsVars  == <<fsOp, fsTy, fsLimbs, fsNum, fsNative, fsGadget, fsBytes, sponge, spongeVar>>
sqVars  == <<fsShort, fsTarget, fsElems, fsElemBits>>
spVars  == <<spOp, spIn, spOut, spPrev, spCalls>>
pedVars == <<setupSamples, setupOut>>
ecVars  == <<ecOp, ecIn, ecOut, bnV, bnPc, bnZ2>>
parVars == <<parKind, parOp, parVal, parBuf, parWritten, parRes, parOut>>
gmVars  == <<gmOp, gmIn, gmOut>>
rcaVars == <<rcaOp, rcaA, rcaB, rcaOut>>
txVars  == <<txs, txOp, txArg, txRes, txChecked>>
abVars  == <<abIn, abOut>>
extVars == <<parVars, gmVars, rcaVars, txVars, abVars>>
coreVars == <<serVars, crhVars, fsVars, sqVars, spVars, pedVars, ecVars>>
notPar  == <<coreVars, gmVars, rcaVars, txVars, abVars>>
notGm   == <<coreVars, parVars, rcaVars, txVars, abVars>>
notRca  == <<coreVars, parVars, gmVars, txVars, abVars>>
notTx   == <<coreVars, parVars, gmVars, rcaVars, abVars>>
notAb   == <<serVars, crhVars, sqVars, spVars, pedVars, ecVars, parVars, gmVars, rcaVars, txVars>>
notSer  == <<crhVars, fsVars, sqVars, spVars, pedVars, ecVars, extVars>>
notCrh  == <<serVars, fsVars, sqVars, spVars, ecVars, extVars>>
notFs   == <<serVars, crhVars, spVars, pedVars, ecVars, extVars>>
vars    == <<serVars, crhVars, fsVars, sqVars, spVars, pedVars, ecVars, extVars>>

(***************************************************************************)
(* Generic helpers                                                         *)
(***************************************************************************)
RECURSIVE Pow(_, _, _)
Pow(x, n, m) ==
    IF n = 0 THEN 1 % m
    ELSE IF n % 2 = 0
         THEN LET half == Pow(x, n \div 2, m) IN (half * half) % m
         ELSE (x * Pow(x, n - 1, m)) % m

\* The element of a one-element set.
TheOnly(S) == CHOOSE x \in S : TRUE

RECURSIVE SeqsUpTo(_, _)
SeqsUpTo(S, n) ==
    IF n = 0 THEN {<< >>}
    ELSE LET shorter == SeqsUpTo(S, n - 1)
         IN  shorter \cup {Append(s, e) : s \in {t \in shorter : Len(t) = n - 1}, e \in S}

Min(a, b) == IF a < b THEN a ELSE b

(***************************************************************************)
(* 1. Affine point serialization                                           *)
(*    short_weierstrass_jacobian.rs / short_weierstrass_projective.rs      *)
(***************************************************************************)

\* P::BaseField: the prime field F_Q the curve is defined over.
Q == 5

BaseField == 0 .. (Q - 1)

\* Bytes a reader can meet: every canonical field value, and Q for "not below
\* the modulus"; for the flag byte 0, 1 and 2.
WireBytes == 0 .. Q

Families == {"jacobian", "projective"}

\* Curve coefficients (COEFF_A, COEFF_B) with non-zero discriminant.
Curves ==
    {c \in [a : BaseField, b : BaseField] :
        (4 * c.a * c.a * c.a + 27 * c.b * c.b) % Q # 0}

\* GroupAffine::new
NewAffine(x, y, infinity) == [x |-> x, y |-> y, infinity |-> infinity]

\* Zero for GroupAffine: zero() and is_zero()
AffineZero == NewAffine(0, 1, TRUE)

AffineIsZero(p) == p.infinity

\* GroupAffine::is_on_curve
is_on_curve(p) ==
    IF AffineIsZero(p) THEN TRUE
    ELSE LET y2  == (p.y * p.y) % Q
             x3b == (((((p.x * p.x) % Q) * p.x) % Q) + ((curve.a * p.x) % Q) + curve.b) % Q
         IN  y2 = x3b

\* io::Result values
IoOk(v)    == [tag |-> "Ok", kind |-> "", val |-> <<v>>]
IoErr(k)   == [tag |-> "Err", kind |-> k, val |-> << >>]
NotRun     == [tag |-> "None", kind |-> "", val |-> << >>]

\* Field element and bool encodings (fields / utilities crates).
FieldWrite(x) == <<x>>

FieldRead(b) == IF b < Q THEN IoOk(b) ELSE IoErr("InvalidData")

BoolWrite(f) == IF f THEN <<1>> ELSE <<0>>

BoolRead(b) ==
    IF b = 0 THEN IoOk(FALSE)
    ELSE IF b = 1 THEN IoOk(TRUE)
    ELSE IoErr("InvalidData")

\* A write that emits y before x.
JacobianAffineWriteYX(p) == FieldWrite(p.y) \o FieldWrite(p.x) \o BoolWrite(p.infinity)

\* impl ToBytes for GroupAffine (short_weierstrass_jacobian.rs): x, then y,
\* then the infinity flag.
JacobianAffineWrite(p) == FieldWrite(p.x) \o FieldWrite(p.y) \o BoolWrite(p.infinity)

\* impl ToBytes for GroupAffine (short_weierstrass_projective.rs)
ProjectiveAffineWrite(p) == FieldWrite(p.x) \o FieldWrite(p.y) \o BoolWrite(p.infinity)

GroupAffineWrite(fam, p) ==
    IF fam = "jacobian" THEN JacobianAffineWrite(p) ELSE ProjectiveAffineWrite(p)

\* The three `?` reads at the head of GroupAffine::read: the decoded triple,
\* or the first error.
DecodeTriple(bytes) ==
    IF Len(bytes) < 1 THEN IoErr("UnexpectedEof")
    ELSE IF FieldRead(bytes[1]).tag = "Err" THEN FieldRead(bytes[1])
    ELSE IF Len(bytes) < 2 THEN IoErr("UnexpectedEof")
    ELSE IF FieldRead(bytes[2]).tag = "Err" THEN FieldRead(bytes[2])
    ELSE IF Len(bytes) < 3 THEN IoErr("UnexpectedEof")
    ELSE IF BoolRead(bytes[3]).tag = "Err" THEN BoolRead(bytes[3])
    ELSE IoOk(NewAffine(FieldRead(bytes[1]).val[1],
                        FieldRead(bytes[2]).val[1],
                        BoolRead(bytes[3]).val[1]))

\* GroupAffine::read with the flag test written `==` instead of `!=`.
JacobianAffineReadEq(bytes) ==
    LET d == DecodeTriple(bytes)
    IN  IF d.tag = "Err" THEN d
        ELSE LET t == d.val[1]
             IN  IF (t.infinity = (t.x = 0)) /\ (t.y = 1)
                 THEN IoErr("InvalidData")
                 ELSE IoOk(NewAffine(t.x, t.y, t.infinity))

\* impl FromBytes for GroupAffine (short_weierstrass_jacobian.rs).  The test
\* is `infinity != x.is_zero() && y.is_one()`; `!=` binds tighter than `&&`.
JacobianAffineRead(bytes) ==
    LET d == DecodeTriple(bytes)
    IN  IF d.tag = "Err" THEN d
        ELSE LET t == d.val[1]
             IN  IF (t.infinity # (t.x = 0)) /\ (t.y = 1)
                 THEN IoErr("InvalidData")
                 ELSE IoOk(NewAffine(t.x, t.y, t.infinity))

\* impl FromBytes for GroupAffine (short_weierstrass_projective.rs): the same
\* text as the Jacobian one.
ProjectiveAffineRead(bytes) ==
    LET d == DecodeTriple(bytes)
    IN  IF d.tag = "Err" THEN d
        ELSE LET t == d.val[1]
             IN  IF (t.infinity # (t.x = 0)) /\ (t.y = 1)
                 THEN IoErr("InvalidData")
                 ELSE IoOk(NewAffine(t.x, t.y, t.infinity))

GroupAffineRead(fam, bytes) ==
    IF fam = "jacobian" THEN JacobianAffineRead(bytes) ELSE ProjectiveAffineRead(bytes)

\* The affine values that satisfy the data-model invariant on the current
\* curve: the canonical infinity, or a finite point on the curve.
ValidAffine ==
    {AffineZero} \cup
    {p \in {NewAffine(x, y, FALSE) : x \in BaseField, y \in BaseField} : is_on_curve(p)}

\* Byte strings handed to the reader that no write of this model produced.
WireInputs ==
    {<<x, y, f>> : x \in WireBytes, y \in WireBytes, f \in 0 .. 2}
        \cup {<<x, y>> : x \in WireBytes, y \in WireBytes}

SerIdle ==
    /\ wrote = << >>
    /\ buf = << >>
    /\ res = NotRun

\* to_bytes: serialize a valid point into the buffer.
SerWrite ==
    \E p \in ValidAffine :
        /\ wrote' = <<p>>
        /\ buf' = GroupAffineWrite(family, p)
        /\ res' = NotRun
        /\ UNCHANGED <<family, curve, notSer>>

\* Untrusted bytes arrive in the buffer.
SerInject ==
    \E bytes \in WireInputs :
        /\ wrote' = << >>
        /\ buf' = bytes
        /\ res' = NotRun
        /\ UNCHANGED <<family, curve, notSer>>

\* from_bytes on the buffer.
SerRead ==
    /\ res.tag = "None"
    /\ res' = GroupAffineRead(family, buf)
    /\ UNCHANGED <<family, curve, wrote, buf, notSer>>

(***************************************************************************)
(* 2. Pedersen CRH gadget                                                  *)
(*    gadgets/src/algorithms/crh/pedersen.rs,                              *)
(*    algorithms/src/crh/pedersen_parameters.rs                            *)
(***************************************************************************)

\* G: Group, modelled as the additive group of integers modulo GroupOrder.
GroupOrder == 101

GAdd(g, h) == (g + h) % GroupOrder

GNeg(g) == (GroupOrder - g) % GroupOrder

GZero == 0

\* PedersenSize
NUM_WINDOWS == 4

WINDOW_SIZE == 4

\* Seeds of the setup rng, and the longest input / mask byte strings tried.
MaxSeed == 3

MaxInputLen == 3

MaxMaskLen == 2

\* Byte values the inputs and masks are built from.
InputByteVals == {0, 1, 181}

MaskByteVals == {0, 166}

\* G::rand(rng): the i-th group element an rng seeded with `seed` yields.
GRand(seed, i) == (7 * seed + 13 * i + seed * i * i) % GroupOrder

\* base with the doubling left out: the sampled element num_powers times.
RECURSIVE BaseNoDoubling(_, _)
BaseNoDoubling(num_powers, base) ==
    IF num_powers = 0 THEN << >>
    ELSE <<base>> \o BaseNoDoubling(num_powers - 1, base)

\* PedersenCRHParameters::base: [G, 2G, 4G, ...], by iterated doubling.
RECURSIVE Base(_, _)
Base(num_powers, base) ==
    IF num_powers = 0 THEN << >>
    ELSE <<base>> \o Base(num_powers - 1, GAdd(base, base))

\* PedersenCRHParameters::setup: one freshly sampled row per window.
Setup(seed) == [i \in 1 .. NUM_WINDOWS |-> Base(WINDOW_SIZE, GRand(seed, i))]

\* PedersenCRHParameters::from(bases): a table the caller supplies, here
\* NUM_WINDOWS rows of WINDOW_SIZE unrelated group elements.
From(bases) == bases

SuppliedBases(seed) ==
    [i \in 1 .. NUM_WINDOWS |-> [j \in 1 .. WINDOW_SIZE |-> GRand(seed, i * WINDOW_SIZE + j)]]

\* UInt8::to_bits_le: the eight bits of a byte, least significant first.
ToBitsLE(byte) == [i \in 1 .. 8 |-> (byte \div (2 ^ (i - 1))) % 2 = 1]

\* UInt8::from_bits_le
RECURSIVE FromBitsLE(_)
FromBitsLE(bits) ==
    IF bits = << >> THEN 0
    ELSE (IF Head(bits) THEN 1 ELSE 0) + 2 * FromBitsLE(Tail(bits))

\* Vec::resize: truncate to n, or extend to n with `fill`.
Resize(v, n, fill) ==
    IF Len(v) >= n THEN SubSeq(v, 1, n)
    ELSE v \o [i \in 1 .. (n - Len(v)) |-> fill]

\* slice::chunks
Chunks(s, n) ==
    [k \in 1 .. ((Len(s) + n - 1) \div n) |-> SubSeq(s, (k - 1) * n + 1, Min(k * n, Len(s)))]

RECURSIVE FlatMapBitsLE(_)
FlatMapBitsLE(bytes) ==
    IF bytes = << >> THEN << >>
    ELSE ToBitsLE(Head(bytes)) \o FlatMapBitsLE(Tail(bytes))

\* pad_input_and_bitify with the padding byte 1 instead of 0.
pad_input_and_bitify_ones(input) ==
    LET padded == Resize(input, (WINDOW_SIZE * NUM_WINDOWS) \div 8, 1)
    IN  IF Len(padded) * 8 # WINDOW_SIZE * NUM_WINDOWS
        THEN [tag |-> "Panic", bits |-> << >>]
        ELSE [tag |-> "Ok", bits |-> FlatMapBitsLE(padded)]

\* pad_input_and_bitify: resize to WINDOW_SIZE * NUM_WINDOWS / 8 bytes with
\* zero bytes (resize also truncates), assert the length, bitify.
pad_input_and_bitify(input) ==
    LET padded == Resize(input, (WINDOW_SIZE * NUM_WINDOWS) \div 8, 0)
    IN  IF Len(padded) * 8 # WINDOW_SIZE * NUM_WINDOWS
        THEN [tag |-> "Panic", bits |-> << >>]
        ELSE [tag |-> "Ok", bits |-> FlatMapBitsLE(padded)]

\* GroupGadget::precomputed_base_scalar_mul: add the base of every set bit.
RECURSIVE precomputed_base_scalar_mul(_, _, _)
precomputed_base_scalar_mul(acc, bits, powers) ==
    IF bits = << >> \/ powers = << >> THEN acc
    ELSE precomputed_base_scalar_mul(
            IF Head(bits) THEN GAdd(acc, Head(powers)) ELSE acc,
            Tail(bits), Tail(powers))

\* GroupGadget::multi_scalar_multiplication: zip(scalars, bases), one
\* precomputed_base_scalar_mul per window.
RECURSIVE multi_scalar_multiplication(_, _, _)
multi_scalar_multiplication(acc, bases, scalars) ==
    IF bases = << >> \/ scalars = << >> THEN acc
    ELSE multi_scalar_multiplication(
            precomputed_base_scalar_mul(acc, Head(scalars), Head(bases)),
            Tail(bases), Tail(scalars))

\* GroupGadget::precomputed_base_symmetric_scalar_mul: base^(1 - 2 bit).
RECURSIVE precomputed_base_symmetric_scalar_mul(_, _, _)
precomputed_base_symmetric_scalar_mul(acc, bits, powers) ==
    IF bits = << >> \/ powers = << >> THEN acc
    ELSE precomputed_base_symmetric_scalar_mul(
            IF Head(bits) THEN GAdd(acc, GNeg(Head(powers))) ELSE GAdd(acc, Head(powers)),
            Tail(bits), Tail(powers))

\* GroupGadget::symmetric_multi_scalar_multiplication
RECURSIVE symmetric_multi_scalar_multiplication(_, _, _)
symmetric_multi_scalar_multiplication(acc, bases, scalars) ==
    IF bases = << >> \/ scalars = << >> THEN acc
    ELSE symmetric_multi_scalar_multiplication(
            precomputed_base_symmetric_scalar_mul(acc, Head(scalars), Head(bases)),
            Tail(bases), Tail(scalars))

\* GroupGadget::precomputed_base_scalar_mul_masked: per bit m with mask bit p,
\* base g and mask base h:  (m xor p) = 0 adds (p ? h : -h);
\*                          (m xor p) = 1 adds (p ? h - g : g - h).
RECURSIVE precomputed_base_scalar_mul_masked(_, _, _, _, _)
precomputed_base_scalar_mul_masked(acc, bits, powers, mask, maskPowers) ==
    IF bits = << >> \/ powers = << >> \/ mask = << >> \/ maskPowers = << >> THEN acc
    ELSE LET m == Head(bits)
             p == Head(mask)
             g == Head(powers)
             h == Head(maskPowers)
             term == IF m = p
                     THEN (IF p THEN h ELSE GNeg(h))
                     ELSE (IF p THEN GAdd(h, GNeg(g)) ELSE GAdd(g, GNeg(h)))
         IN  precomputed_base_scalar_mul_masked(
                GAdd(acc, term), Tail(bits), Tail(powers), Tail(mask), Tail(maskPowers))

\* GroupGadget::masked_multi_scalar_multiplication
RECURSIVE masked_multi_scalar_multiplication(_, _, _, _, _)
masked_multi_scalar_multiplication(acc, bases, scalars, maskBases, masks) ==
    IF bases = << >> \/ scalars = << >> \/ maskBases = << >> \/ masks = << >> THEN acc
    ELSE masked_multi_scalar_multiplication(
            precomputed_base_scalar_mul_masked(
                acc, Head(scalars), Head(bases), Head(masks), Head(maskBases)),
            Tail(bases), Tail(scalars), Tail(maskBases), Tail(masks))

\* MaskedCRHGadget::extend_mask: every mask bit p becomes the two bits p, !p,
\* so one mask byte becomes two bytes.
RECURSIVE DoubleBits(_)
DoubleBits(bits) ==
    IF bits = << >> THEN << >>
    ELSE <<Head(bits), ~Head(bits)>> \o DoubleBits(Tail(bits))

RECURSIVE extend_mask(_)
extend_mask(mask) ==
    IF mask = << >> THEN << >>
    ELSE LET bits == ToBitsLE(Head(mask))
         IN  <<FromBitsLE(DoubleBits(SubSeq(bits, 1, 4))),
               FromBitsLE(DoubleBits(SubSeq(bits, 5, 8)))>> \o extend_mask(Tail(mask))

\* CompressedGroupGadget::to_x_coordinate: a point and its negation share x.
to_x_coordinate(g) == Min(g, GNeg(g))

\* Result<OutputGadget, SynthesisError> of a gadget call, with the bits the
\* call hashed and the constraint system it leaves behind.  "Panic" is a
\* failed assert_eq!.
GadgetOk(v, bits, c)  == [tag |-> "Ok", kind |-> "", val |-> <<v>>, bits |-> bits, cs |-> c]
GadgetErr(k, c)       == [tag |-> "Err", kind |-> k, val |-> << >>, bits |-> << >>, cs |-> c]
GadgetPanic(c)        == [tag |-> "Panic", kind |-> "assert_eq", val |-> << >>, bits |-> << >>, cs |-> c]
GadgetNone            == [tag |-> "None", kind |-> "", val |-> << >>, bits |-> << >>]

\* check_evaluation_gadget splitting the bits into chunks of 8.
check_evaluation_gadget_chunk8(c, bases, input) ==
    IF Len(bases) # NUM_WINDOWS THEN GadgetPanic(c)
    ELSE LET input_in_bits == pad_input_and_bitify(input)
         IN  IF input_in_bits.tag = "Panic" THEN GadgetPanic(c)
             ELSE GadgetOk(
                    multi_scalar_multiplication(GZero, bases, Chunks(input_in_bits.bits, 8)),
                    input_in_bits.bits,
                    Append(c, "multi_scalar_multiplication"))

\* PedersenCRHGadget::check_evaluation_gadget
check_evaluation_gadget(c, bases, input) ==
    IF Len(bases) # NUM_WINDOWS THEN GadgetPanic(c)
    ELSE LET input_in_bits == pad_input_and_bitify(input)
         IN  IF input_in_bits.tag = "Panic" THEN GadgetPanic(c)
             ELSE GadgetOk(
                    multi_scalar_multiplication(
                        GZero, bases, Chunks(input_in_bits.bits, WINDOW_SIZE)),
                    input_in_bits.bits,
                    Append(c, "multi_scalar_multiplication"))

\* The three terms check_evaluation_gadget_masked computes after its length
\* check: H(mask) under the bases, H_2(mask) under the mask bases, and the
\* masked multi-scalar multiplication; or the failure that stops it.
MaskedTerms(c, bases, input, maskBases, mask) ==
    LET emask     == extend_mask(mask)
        mask_hash == check_evaluation_gadget(
                        c \o <<"extend mask", "evaluate mask">>, bases, emask)
    IN  IF mask_hash.tag # "Ok" THEN [tag |-> "Fail", fail |-> mask_hash]
        ELSE
        LET mask_input_in_bits == pad_input_and_bitify(emask)
            c2 == Append(mask_hash.cs, "evaluate mask with mask bases")
            input_in_bits == pad_input_and_bitify(input)
            mask_in_bits  == pad_input_and_bitify(emask)
        IN  IF mask_input_in_bits.tag = "Panic" THEN [tag |-> "Fail", fail |-> GadgetPanic(mask_hash.cs)]
            ELSE IF Len(bases) # NUM_WINDOWS
                    \/ input_in_bits.tag = "Panic" \/ mask_in_bits.tag = "Panic"
            THEN [tag |-> "Fail", fail |-> GadgetPanic(c2)]
            ELSE [tag |-> "Ok",
                  mask_hash |-> mask_hash.val[1],
                  mask_symmetric_hash |->
                      symmetric_multi_scalar_multiplication(
                          GZero, maskBases, Chunks(mask_input_in_bits.bits, WINDOW_SIZE)),
                  masked_output |->
                      masked_multi_scalar_multiplication(
                          GZero,
                          bases, Chunks(input_in_bits.bits, WINDOW_SIZE),
                          maskBases, Chunks(mask_in_bits.bits, WINDOW_SIZE)),
                  bits |-> input_in_bits.bits,
                  cs |-> Append(c2, "multiscalar multiplication")]

\* check_evaluation_gadget_masked that forgets to add the symmetric mask hash.
check_evaluation_gadget_masked_no_symmetric(c, bases, input, maskBases, mask) ==
    IF Len(input) # Len(mask) * 2 THEN GadgetErr("Unsatisfiable", c)
    ELSE LET t == MaskedTerms(c, bases, input, maskBases, mask)
         IN  IF t.tag # "Ok" THEN t.fail
             ELSE GadgetOk(
                    GAdd(t.masked_output, t.mask_hash),
                    t.bits,
                    t.cs \o <<"remove mask", "remove mask with mask bases">>)

\* check_evaluation_gadget_masked that compares input.len() with mask.len().
check_evaluation_gadget_masked_same_len(c, bases, input, maskBases, mask) ==
    IF Len(input) # Len(mask) THEN GadgetErr("Unsatisfiable", c)
    ELSE LET t == MaskedTerms(c, bases, input, maskBases, mask)
         IN  IF t.tag # "Ok" THEN t.fail
             ELSE GadgetOk(
                    GAdd(GAdd(t.masked_output, t.mask_hash), t.mask_symmetric_hash),
                    t.bits,
                    t.cs \o <<"remove mask", "remove mask with mask bases">>)

\* PedersenCRHGadget::check_evaluation_gadget_masked
check_evaluation_gadget_masked(c, bases, input, maskBases, mask) ==
    IF Len(input) # Len(mask) * 2 THEN GadgetErr("Unsatisfiable", c)
    ELSE LET t == MaskedTerms(c, bases, input, maskBases, mask)
         IN  IF t.tag # "Ok" THEN t.fail
             ELSE GadgetOk(
                    GAdd(GAdd(t.masked_output, t.mask_hash), t.mask_symmetric_hash),
                    t.bits,
                    t.cs \o <<"remove mask", "remove mask with mask bases">>)

\* `Ok(output.to_x_coordinate())` after the `?`.
XOfOutput(r) ==
    IF r.tag = "Ok" THEN [r EXCEPT !.val = <<to_x_coordinate(r.val[1])>>] ELSE r

\* PedersenCompressedCRHGadget::check_evaluation_gadget
compressed_check_evaluation_gadget(c, bases, input) ==
    XOfOutput(check_evaluation_gadget(c, bases, input))

\* PedersenCompressedCRHGadget::check_evaluation_gadget_masked
compressed_check_evaluation_gadget_masked(c, bases, input, maskBases, mask) ==
    XOfOutput(check_evaluation_gadget_masked(c, bases, input, maskBases, mask))

\* PedersenCRH::hash (native): reject an input of more than
\* NUM_WINDOWS * WINDOW_SIZE bits, else sum bases[i][j] over the set bits
\* i * WINDOW_SIZE + j of the zero-padded input.
NativeBit(input, k) ==
    IF (k \div 8) + 1 > Len(input) THEN FALSE
    ELSE (input[(k \div 8) + 1] \div (2 ^ (k % 8))) % 2 = 1

RECURSIVE NativeSum(_, _, _)
NativeSum(bases, input, k) ==
    IF k = NUM_WINDOWS * WINDOW_SIZE THEN GZero
    ELSE GAdd(
            IF NativeBit(input, k)
            THEN bases[(k \div WINDOW_SIZE) + 1][(k % WINDOW_SIZE) + 1]
            ELSE GZero,
            NativeSum(bases, input, k + 1))

PedersenCRHHash(bases, input) ==
    IF Len(input) * 8 > WINDOW_SIZE * NUM_WINDOWS
    THEN [tag |-> "Err", kind |-> "IncorrectInputLength", val |-> << >>]
    ELSE [tag |-> "Ok", kind |-> "", val |-> <<NativeSum(bases, input, 0)>>]

CrhInputs == SeqsUpTo(InputByteVals, MaxInputLen)

CrhMasks == SeqsUpTo(MaskByteVals, MaxMaskLen)

Outcome(r) == [tag |-> r.tag, kind |-> r.kind, val |-> r.val, bits |-> r.bits]

CrhIdle ==
    /\ params = << >>
    /\ maskParams = << >>
    /\ crhOp = "none"
    /\ crhIn = << >>
    /\ crhMask = << >>
    /\ crhOut = GadgetNone
    /\ cs = << >>

\* A call of check_evaluation_gadget on the constraint system.
CrhEvaluate ==
    \E input \in CrhInputs :
        LET r == check_evaluation_gadget(cs, params, input)
        IN  /\ crhOp = "none"
            /\ crhOp' = "check_evaluation_gadget"
            /\ crhIn' = input
            /\ crhMask' = << >>
            /\ crhOut' = Outcome(r)
            /\ cs' = r.cs
            /\ UNCHANGED <<params, maskParams, pedVars, notCrh>>

\* The compressed variant of the same call.
CrhEvaluateCompressed ==
    \E input \in CrhInputs :
        LET r == compressed_check_evaluation_gadget(cs, params, input)
        IN  /\ crhOp = "none"
            /\ crhOp' = "compressed_check_evaluation_gadget"
            /\ crhIn' = input
            /\ crhMask' = << >>
            /\ crhOut' = Outcome(r)
            /\ cs' = r.cs
            /\ UNCHANGED <<params, maskParams, pedVars, notCrh>>

\* A call of check_evaluation_gadget_masked on the constraint system.
CrhEvaluateMasked ==
    \E input \in CrhInputs, mask \in CrhMasks :
        LET r == check_evaluation_gadget_masked(cs, params, input, maskParams, mask)
        IN  /\ crhOp = "none"
            /\ crhOp' = "check_evaluation_gadget_masked"
            /\ crhIn' = input
            /\ crhMask' = mask
            /\ crhOut' = Outcome(r)
            /\ cs' = r.cs
            /\ UNCHANGED <<params, maskParams, pedVars, notCrh>>

\* The compressed variant of the masked call.
CrhEvaluateMaskedCompressed ==
    \E input \in CrhInputs, mask \in CrhMasks :
        LET r == compressed_check_evaluation_gadget_masked(cs, params, input, maskParams, mask)
        IN  /\ crhOp = "none"
            /\ crhOp' = "compressed_check_evaluation_gadget_masked"
            /\ crhIn' = input
            /\ crhMask' = mask
            /\ crhOut' = Outcome(r)
            /\ cs' = r.cs
            /\ UNCHANGED <<params, maskParams, pedVars, notCrh>>

\* ---- parameter setup
\* The first n group elements an rng seeded with `seed` yields.
RngDraws(seed, n) == [i \in 1 .. n |-> GRand(seed, i)]

\* PedersenCommitmentParameters::setup: NUM_WINDOWS rows, then random_base from
\* the next draw, then the CRH built from a clone of the rows.
CommitmentSetup(seed) ==
    LET bases == [i \in 1 .. NUM_WINDOWS |-> Base(WINDOW_SIZE, GRand(seed, i))]
        random_base == Base(WINDOW_SIZE, GRand(seed, NUM_WINDOWS + 1))
        crh_parameters == From(bases)
    IN  [bases |-> bases, random_base |-> random_base, crh |-> crh_parameters]

\* PedersenCRHParameters::setup(rng)
PedersenCrhSetup ==
    /\ crhOp = "none"
    /\ \E seed \in 1 .. (2 * MaxSeed) :
        /\ crhOp' = "setup"
        /\ setupSamples' = RngDraws(seed, NUM_WINDOWS)
        /\ setupOut' = <<[bases |-> Setup(seed), random_base |-> << >>, crh |-> << >>]>>
        /\ UNCHANGED <<params, maskParams, crhIn, crhMask, crhOut, cs, notCrh>>

\* PedersenCommitmentParameters::setup(rng)
PedersenCommitmentSetup ==
    /\ crhOp = "none"
    /\ \E seed \in 1 .. (2 * MaxSeed) :
        /\ crhOp' = "commitment_setup"
        /\ setupSamples' = RngDraws(seed, NUM_WINDOWS + 1)
        /\ setupOut' = <<CommitmentSetup(seed)>>
        /\ UNCHANGED <<params, maskParams, crhIn, crhMask, crhOut, cs, notCrh>>

\* The caller drops the outcome and starts over with a new constraint system
\* (TestConstraintSystem::new()).
CrhNewConstraintSystem ==
    /\ crhOp # "none"
    /\ crhOp' = "none"
    /\ crhIn' = << >>
    /\ crhMask' = << >>
    /\ crhOut' = GadgetNone
    /\ cs' = << >>
    /\ setupSamples' = << >>
    /\ setupOut' = << >>
    /\ UNCHANGED <<params, maskParams, notCrh>>

(***************************************************************************)
(* Specifications of sections 1 and 2                                      *)
(***************************************************************************)
PedIdle ==
    /\ setupSamples = << >>
    /\ setupOut = << >>

EcIdle ==
    /\ ecOp = "none"
    /\ ecIn = << >>
    /\ ecOut = << >>
    /\ bnV = << >>
    /\ bnPc = << >>
    /\ bnZ2 = << >>

ParIdle ==
    /\ parKind = "crh"
    /\ parOp = "none"
    /\ parVal = << >>
    /\ parBuf = << >>
    /\ parWritten = 0
    /\ parRes = << >>
    /\ parOut = << >>

GmIdle ==
    /\ gmOp = "none"
    /\ gmIn = << >>
    /\ gmOut = << >>

RcaIdle ==
    /\ rcaOp = "none"
    /\ rcaA = << >>
    /\ rcaB = << >>
    /\ rcaOut = << >>

TxIdle ==
    /\ txs = << >>
    /\ txOp = "new"
    /\ txArg = << >>
    /\ txRes = << >>
    /\ txChecked = TRUE

AbIdle ==
    /\ abIn = << >>
    /\ abOut = << >>

ExtIdle ==
    /\ ParIdle
    /\ GmIdle
    /\ RcaIdle
    /\ TxIdle
    /\ AbIdle

SqIdle ==
    /\ fsShort = FALSE
    /\ fsTarget = 0
    /\ fsElems = << >>
    /\ fsElemBits = << >>

SpIdle ==
    /\ spOp = "none"
    /\ spIn = << >>
    /\ spOut = << >>
    /\ spPrev = << >>
    /\ spCalls = 0

FsIdle ==
    /\ SqIdle
    /\ SpIdle
    /\ fsOp = "none"
    /\ fsTy = "none"
    /\ fsLimbs = << >>
    /\ fsNum = 0
    /\ fsNative = << >>
    /\ fsGadget = << >>
    /\ fsBytes = << >>
    /\ sponge = << >>
    /\ spongeVar = << >>

\* The state of sections 1 to 4 before anything has run.
CoreIdle ==
    /\ family = "jacobian"
    /\ curve = [a |-> 0, b |-> 1]
    /\ SerIdle
    /\ CrhIdle
    /\ FsIdle
    /\ PedIdle
    /\ EcIdle

InitSer ==
    /\ family \in Families
    /\ curve \in Curves
    /\ SerIdle
    /\ CrhIdle
    /\ FsIdle
    /\ PedIdle
    /\ ExtIdle
    /\ EcIdle

NextSer == SerWrite \/ SerInject \/ SerRead

SpecSer == InitSer /\ [][NextSer]_vars

InitCRH ==
    /\ family = "jacobian"
    /\ curve = [a |-> 0, b |-> 1]
    /\ SerIdle
    /\ \E seed \in 1 .. MaxSeed, maskSeed \in 1 .. MaxSeed :
          \/ /\ params = Setup(seed)
             /\ maskParams = Setup(MaxSeed + maskSeed)
          \/ /\ params = From(SuppliedBases(seed))
             /\ maskParams = From(SuppliedBases(MaxSeed + maskSeed))
    /\ crhOp = "none"
    /\ crhIn = << >>
    /\ crhMask = << >>
    /\ crhOut = GadgetNone
    /\ cs = << >>
    /\ FsIdle
    /\ PedIdle
    /\ ExtIdle
    /\ EcIdle

NextCRH ==
    \/ CrhEvaluate
    \/ CrhEvaluateCompressed
    \/ CrhEvaluateMasked
    \/ CrhEvaluateMaskedCompressed
    \/ PedersenCrhSetup
    \/ PedersenCommitmentSetup
    \/ CrhNewConstraintSystem

SpecCRH == InitCRH /\ [][NextCRH]_vars

(***************************************************************************)
(* Properties of affine point serialization (SpecSer)                      *)
(***************************************************************************)
ReadDone == res.tag # "None"

Decoded == DecodeTriple(buf)

DecodedIs(x, y, infinity) ==
    /\ Decoded.tag = "Ok"
    /\ Decoded.val[1] = NewAffine(x, y, infinity)

\* C1: in both families, read returns an InvalidData error, never Ok, when
\* the decoded triple has infinity = false and (x, y) = (0, 1).
C1_SentinelWithoutFlagRejected ==
    (ReadDone /\ DecodedIs(0, 1, FALSE)) => res = IoErr("InvalidData")

C1_Witness ==
    /\ ReadDone
    /\ buf = <<0, 1, 0>>
    /\ res.tag = "Err"

\* C2: in both families, read returns an InvalidData error whenever the
\* decoded triple has infinity = true and (x, y) is not (0, 1).
C2_FlagWithoutSentinelRejected ==
    (/\ ReadDone
     /\ Decoded.tag = "Ok"
     /\ Decoded.val[1].infinity
     /\ ~(Decoded.val[1].x = 0 /\ Decoded.val[1].y = 1))
        => res = IoErr("InvalidData")

\* C3: whenever read returns Ok(p), p is the point at infinity or satisfies
\* y^2 = x^3 + a x + b; off-curve finite coordinates are rejected.
C3_ReadValidatesOnCurve ==
    (ReadDone /\ res.tag = "Ok") => is_on_curve(res.val[1])

\* C4 as claimed: for every valid affine point P (the canonical infinity or
\* a finite point on the curve, (0, 1) with b = 1 included), write(P) emits
\* x, y, flag and read(write(P)) returns Ok(P).
C4_RoundTripAllValid ==
    (ReadDone /\ wrote # << >>) =>
        /\ buf = <<wrote[1].x, wrote[1].y, IF wrote[1].infinity THEN 1 ELSE 0>>
        /\ res = IoOk(wrote[1])

\* C4 amended: write(P) emits x, y, flag; read(write(P)) returns Ok(P) for
\* every valid P except the finite point (0, 1), for which read returns an
\* InvalidData error.
C4_RoundTripExceptSentinel ==
    (ReadDone /\ wrote # << >>) =>
        /\ buf = <<wrote[1].x, wrote[1].y, IF wrote[1].infinity THEN 1 ELSE 0>>
        /\ IF wrote[1] = NewAffine(0, 1, FALSE)
           THEN res = IoErr("InvalidData")
           ELSE res = IoOk(wrote[1])

C4_Witness ==
    /\ ReadDone
    /\ wrote # << >>
    /\ ~wrote[1].infinity
    /\ wrote[1].y = 1
    /\ wrote[1].x # 0
    /\ res = IoOk(wrote[1])

(***************************************************************************)
(* Properties of the Pedersen CRH gadget (SpecCRH)                         *)
(***************************************************************************)
MaxInputBytes == (NUM_WINDOWS * WINDOW_SIZE) \div 8

Zeros(k) == [i \in 1 .. k |-> 0]

\* C5: for an input of at most NUM_WINDOWS * WINDOW_SIZE / 8 bytes and a
\* table of NUM_WINDOWS rows, check_evaluation_gadget outputs the native
\* Pedersen hash of the input; all-zero input gives the identity, and an
\* input whose only set bit is bit 0 gives bases[0][0].
C5_GadgetEqualsNative ==
    (/\ crhOp = "check_evaluation_gadget"
     /\ Len(crhIn) <= MaxInputBytes
     /\ Len(params) = NUM_WINDOWS)
        => /\ crhOut.tag = "Ok"
           /\ crhOut.val = PedersenCRHHash(params, crhIn).val
           /\ (crhIn = Zeros(Len(crhIn)) => crhOut.val = <<GZero>>)
           /\ (crhIn = <<1>> \o Zeros(Len(crhIn) - 1) => crhOut.val = <<params[1][1]>>)

C5_Witness ==
    /\ crhOp = "check_evaluation_gadget"
    /\ crhIn = <<181, 1>>
    /\ crhOut.tag = "Ok"
    /\ crhOut.val = PedersenCRHHash(params, crhIn).val
    /\ crhOut.val # <<GZero>>

\* C6: an input of more than NUM_WINDOWS * WINDOW_SIZE / 8 bytes never
\* yields a hash output (plain or compressed); the call fails.
C6_TooLongInputFails ==
    (/\ crhOp \in {"check_evaluation_gadget", "compressed_check_evaluation_gadget"}
     /\ Len(crhIn) > MaxInputBytes)
        => crhOut.tag # "Ok"

\* C7: appending zero bytes to an input, the total staying within the limit,
\* changes neither the bit vector nor the group element produced.
C7_ZeroPaddingInvariant ==
    (/\ crhOp = "check_evaluation_gadget"
     /\ Len(crhIn) <= MaxInputBytes)
        => \A k \in 0 .. (MaxInputBytes - Len(crhIn)) :
              LET r == check_evaluation_gadget(<< >>, params, crhIn \o Zeros(k))
              IN  /\ r.tag = crhOut.tag
                  /\ r.val = crhOut.val
                  /\ r.bits = crhOut.bits

C7_Witness ==
    /\ crhOp = "check_evaluation_gadget"
    /\ crhIn = <<181>>
    /\ crhOut.tag = "Ok"
    /\ crhOut.val # <<GZero>>

\* C8: for input x and mask m with len(x) = 2 len(m), the masked gadget
\* outputs the same group element as the unmasked gadget on x.
C8_MaskedEqualsUnmasked ==
    (/\ crhOp = "check_evaluation_gadget_masked"
     /\ Len(crhIn) = 2 * Len(crhMask))
        => /\ crhOut.tag = "Ok"
           /\ crhOut.val = check_evaluation_gadget(<< >>, params, crhIn).val

C8_Witness ==
    /\ crhOp = "check_evaluation_gadget_masked"
    /\ crhIn = <<181, 1>>
    /\ crhMask = <<166>>
    /\ crhOut.tag = "Ok"
    /\ crhOut.val # <<GZero>>

\* C9: the masked gadget, plain and compressed, returns
\* Err(SynthesisError::Unsatisfiable) whenever input.len() differs from
\* 2 * mask.len(), with nothing added to the constraint system.
C9_LengthMismatchUnsatisfiable ==
    (/\ crhOp \in {"check_evaluation_gadget_masked",
                   "compressed_check_evaluation_gadget_masked"}
     /\ Len(crhIn) # 2 * Len(crhMask))
        => /\ crhOut.tag = "Err"
           /\ crhOut.kind = "Unsatisfiable"
           /\ cs = << >>

C9_Witness ==
    /\ crhOp = "compressed_check_evaluation_gadget_masked"
    /\ crhIn = <<181>>
    /\ crhMask = <<166>>
    /\ crhOut.tag = "Err"
    /\ cs = << >>

(***************************************************************************)
(* 3. Fiat-Shamir algebraic sponge rng                                     *)
(*    marlin/src/fiat_shamir/fiat_shamir_constraints.rs                    *)
(***************************************************************************)

\* CF: the native (constraint) field, the prime field of this modulus.
CFModulus == 509

RECURSIVE BitLen(_)
BitLen(n) == IF n = 0 THEN 0 ELSE 1 + BitLen(n \div 2)

\* CF::size_in_bits()
CFSizeInBits == BitLen(CFModulus)

CFAdd(x, y) == (x + y) % CFModulus

CFMul(x, y) == (x * y) % CFModulus

\* Bounds of the Fiat-Shamir runs: limbs per compress call, bytes absorbed,
\* bits squeezed.
MaxLimbs == 3

MaxFsBytes == 2

MaxSqueezeBits == 17

LimbVals == {1, 3, CFModulus - 1}

AdditionVals == {1, 3, 7}

FsByteVals == {0, 1, 181}

OptimizationTypes == {"Weight", "Constraints"}

\* get_params(F::size_in_bits(), CF::size_in_bits(), ty)
get_params(ty) ==
    IF ty = "Weight"
    THEN [num_limbs |-> 9, bits_per_limb |-> 1]
    ELSE [num_limbs |-> 5, bits_per_limb |-> 2]

\* overhead!(x): the bit length of x, plus one unless x is a power of two.
overhead(x) ==
    IF x = 0 \/ x = 2 ^ (BitLen(x) - 1) THEN BitLen(x) ELSE BitLen(x) + 1

\* The big-endian bits of n in `width` bits.
BitsBE(n, width) ==
    [i \in 1 .. width |->
        IF width - i > 30 THEN FALSE ELSE (n \div (2 ^ (width - i))) % 2 = 1]

\* The lookup table filled after doubling, so that entry k is 2^(k+1).
RECURSIVE AdjustmentFactorLookupTableShifted(_, _)
AdjustmentFactorLookupTableShifted(n, cur) ==
    IF n = 0 THEN << >>
    ELSE <<CFAdd(cur, cur)>> \o AdjustmentFactorLookupTableShifted(n - 1, CFAdd(cur, cur))

\* compress_gadgets: adjustment_factor_lookup_table, `capacity` powers of 2
\* starting from CF::one().
RECURSIVE AdjustmentFactorLookupTable(_, _)
AdjustmentFactorLookupTable(n, cur) ==
    IF n = 0 THEN << >>
    ELSE <<cur>> \o AdjustmentFactorLookupTable(n - 1, CFAdd(cur, cur))

\* The while loop of compress_gadgets from index i (0-based) on.
RECURSIVE CompressLoop(_, _, _)
CompressLoop(src_limbs, ty, i) ==
    LET capacity    == CFSizeInBits - 1
        limb_params == get_params(ty)
        adjustment_factor_lookup_table == AdjustmentFactorLookupTable(capacity, 1)
        src_len     == Len(src_limbs)
    IN  IF ~(i < src_len) THEN << >>
        ELSE
        LET first      == src_limbs[i + 1]
            has_second == i + 1 < src_len
            first_max_bits_per_limb ==
                limb_params.bits_per_limb + overhead(CFAdd(first[2], 1))
            second_max_bits_per_limb ==
                IF has_second
                THEN limb_params.bits_per_limb + overhead(CFAdd(src_limbs[i + 2][2], 1))
                ELSE 0
        IN  IF has_second /\ first_max_bits_per_limb + second_max_bits_per_limb <= capacity
            THEN LET adjustment_factor ==
                         adjustment_factor_lookup_table[second_max_bits_per_limb + 1]
                     value == CFAdd(CFMul(first[1], adjustment_factor), src_limbs[i + 2][1])
                 IN  <<value>> \o CompressLoop(src_limbs, ty, i + 2)
            ELSE <<first[1]>> \o CompressLoop(src_limbs, ty, i + 1)

\* FiatShamirAlgebraicSpongeRngVar::compress_gadgets
compress_gadgets(src_limbs, ty) ==
    IF src_limbs = << >> THEN << >> ELSE CompressLoop(src_limbs, ty, 0)

\* FiatShamirAlgebraicSpongeRng::compress_elements (native): pack two
\* consecutive limbs when their bit widths (bits_per_limb plus the overhead
\* of the additions) sum to at most bitlen(native) - 1, shifting the first
\* left by the width of the second.
LimbWidth(limb, ty) == get_params(ty).bits_per_limb + overhead(CFAdd(limb[2], 1))

RECURSIVE compress_elements(_, _)
compress_elements(src_limbs, ty) ==
    IF src_limbs = << >> THEN << >>
    ELSE IF Len(src_limbs) >= 2
            /\ LimbWidth(src_limbs[1], ty) + LimbWidth(src_limbs[2], ty) <= CFSizeInBits - 1
    THEN <<(src_limbs[1][1] * Pow(2, LimbWidth(src_limbs[2], ty), CFModulus)
                + src_limbs[2][1]) % CFModulus>>
            \o compress_elements(Tail(Tail(src_limbs)), ty)
    ELSE <<src_limbs[1][1]>> \o compress_elements(Tail(src_limbs), ty)

\* ---- the algebraic sponge (AlgebraicSponge / AlgebraicSpongeVar)
RATE == 2

CAPACITY == 1

\* The permutation P: one round of round constants, x^5 S-box and mixing.
Permute(st) ==
    LET sb == <<Pow(CFAdd(st[1], 1), 5, CFModulus),
                Pow(CFAdd(st[2], 2), 5, CFModulus),
                Pow(CFAdd(st[3], 3), 5, CFModulus)>>
        total == (sb[1] + sb[2] + sb[3]) % CFModulus
    IN  <<CFAdd(total, sb[1]), CFAdd(total, sb[2]), CFAdd(total, sb[3])>>

\* AlgebraicSponge::new
NewSponge ==
    [state |-> [i \in 1 .. (RATE + CAPACITY) |-> 0], mode |-> "absorbing", cursor |-> 0]

\* absorb(e) with no permutation on the switch from squeezing.
AbsorbOneNoSwitchPermute(sp, e) ==
    LET a == IF sp.mode = "squeezing"
             THEN [state |-> sp.state, mode |-> "absorbing", cursor |-> 0]
             ELSE sp
        added == [a.state EXCEPT ![(a.cursor % RATE) + 1] = CFAdd(@, e)]
    IN  IF a.cursor + 1 = RATE
        THEN [state |-> Permute(added), mode |-> "absorbing", cursor |-> 0]
        ELSE [state |-> added, mode |-> "absorbing", cursor |-> a.cursor + 1]

\* absorb of one element.
AbsorbOne(sp, e) ==
    LET a == IF sp.mode = "squeezing"
             THEN [state |-> Permute(sp.state), mode |-> "absorbing", cursor |-> 0]
             ELSE sp
        added == [a.state EXCEPT ![(a.cursor % RATE) + 1] = CFAdd(@, e)]
    IN  IF a.cursor + 1 = RATE
        THEN [state |-> Permute(added), mode |-> "absorbing", cursor |-> 0]
        ELSE [state |-> added, mode |-> "absorbing", cursor |-> a.cursor + 1]

\* AlgebraicSponge::absorb
RECURSIVE SpongeAbsorb(_, _)
SpongeAbsorb(sp, elems) ==
    IF elems = << >> THEN sp
    ELSE SpongeAbsorb(AbsorbOne(sp, Head(elems)), Tail(elems))

\* squeeze of one element: [sponge, out].
SqueezeOne(sp) ==
    LET a == IF sp.mode = "absorbing"
             THEN [state |-> Permute(sp.state), mode |-> "squeezing", cursor |-> 0]
             ELSE sp
        out == a.state[(a.cursor % RATE) + 1]
    IN  IF a.cursor + 1 = RATE
        THEN [sponge |-> [state |-> Permute(a.state), mode |-> "squeezing", cursor |-> 0],
              out |-> out]
        ELSE [sponge |-> [a EXCEPT !.cursor = a.cursor + 1], out |-> out]

\* AlgebraicSponge::squeeze / AlgebraicSpongeVar::squeeze: [sponge, out].
\* <<st, P(st), P(P(st)), ...>>: the state before and after each of k
\* permutations.  (x \in {e} evaluates e once, however often x is used.)
RECURSIVE PermutedStates(_, _)
PermutedStates(st, k) ==
    IF k = 0 THEN <<st>>
    ELSE IF k = 1 THEN <<st, Permute(st)>>
    ELSE TheOnly({ first \o Tail(PermutedStates(first[Len(first)], k - (k \div 2)))
                   : first \in {PermutedStates(st, k \div 2)} })

\* AlgebraicSponge::squeeze / AlgebraicSpongeVar::squeeze: [sponge, out].
\* n squeezes of one element each: element i is read at cursor position
\* a.cursor + i - 1 of the state, which is permuted each time RATE elements
\* have been read.
SpongeSqueeze(sp, n) ==
    IF n = 0 THEN [sponge |-> sp, out |-> << >>]
    ELSE LET a == IF sp.mode = "absorbing"
                  THEN [state |-> Permute(sp.state), mode |-> "squeezing", cursor |-> 0]
                  ELSE sp
             read == a.cursor + n
         IN  TheOnly({ [sponge |-> [state |-> states[(read \div RATE) + 1],
                                    mode |-> "squeezing", cursor |-> read % RATE],
                        out |-> [i \in 1 .. n |->
                                    states[((a.cursor + i - 1) \div RATE) + 1]
                                          [((a.cursor + i - 1) % RATE) + 1]]]
                       : states \in {PermutedStates(a.state, read \div RATE)} })

\* AlgebraicSpongeVar::constant(cs, &pfs.s): the gadget sponge holding the
\* native sponge's state.
SpongeVarConstant(sp) == sp

\* FpGadget::to_bits_be: CF::size_in_bits() bits, most significant first.
FpToBitsBE(x) == BitsBE(x, CFSizeInBits)

\* Each element's bits without the highest one, element after element.
DiscardHighestBits(elems) ==
    LET kept == [e \in 1 .. Len(elems) |-> Tail(FpToBitsBE(elems[e]))]
        w == CFSizeInBits - 1
    IN  [i \in 1 .. (Len(elems) * w) |-> kept[((i - 1) \div w) + 1][((i - 1) % w) + 1]]

\* FiatShamirAlgebraicSpongeRngVar::get_booleans_from_sponge
get_booleans_from_sponge(sp, num_bits) ==
    LET bits_per_element == CFSizeInBits - 1
        num_elements == (num_bits + bits_per_element - 1) \div bits_per_element
    IN  TheOnly({ [sponge |-> squeezed.sponge, out |-> DiscardHighestBits(squeezed.out)]
                  : squeezed \in {SpongeSqueeze(sp, num_elements)} })

\* FiatShamirAlgebraicSpongeRng::get_bits_from_sponge (native): the repr of
\* each squeezed element as ReprBits big-endian bits, without the
\* REPR_SHAVE_BITS + 1 leading ones.
ReprBits == 64

NativeElementBits(elems) ==
    LET skip == (ReprBits - CFSizeInBits) + 1
        kept == [e \in 1 .. Len(elems) |-> SubSeq(BitsBE(elems[e], ReprBits), skip + 1, ReprBits)]
        w == ReprBits - skip
    IN  [i \in 1 .. (Len(elems) * w) |-> kept[((i - 1) \div w) + 1][((i - 1) % w) + 1]]

get_bits_from_sponge(sp, num_bits) ==
    LET bits_per_element == CFSizeInBits - 1
        num_elements == (num_bits + bits_per_element - 1) \div bits_per_element
    IN  TheOnly({ [sponge |-> squeezed.sponge, out |-> NativeElementBits(squeezed.out)]
                  : squeezed \in {SpongeSqueeze(sp, num_elements)} })

\* FiatShamirAlgebraicSpongeRng::absorb_bytes (native): the bits of the bytes,
\* little-endian per byte, in chunks of bitlen(native) - 1 bits, each chunk
\* packed into one field element.
RECURSIVE PackBitsLE(_)
PackBitsLE(bits) ==
    IF bits = << >> THEN 0
    ELSE ((IF Head(bits) THEN 1 ELSE 0) + 2 * PackBitsLE(Tail(bits))) % CFModulus

NativeBytesToElements(bytes) ==
    LET chunks == Chunks(FlatMapBitsLE(bytes), CFSizeInBits - 1)
    IN  [k \in 1 .. Len(chunks) |-> PackBitsLE(chunks[k])]

absorb_bytes_native(sp, bytes) == SpongeAbsorb(sp, NativeBytesToElements(bytes))

FsLimbSeqs == SeqsUpTo({<<v, n>> : v \in LimbVals, n \in AdditionVals}, MaxLimbs)

FsByteSeqs == SeqsUpTo(FsByteVals, MaxFsBytes)

\* compress the same limb sequence natively and in the circuit
\* (test_compress_gadgets_weight_optimized / _constraint_optimized).
FsCompress ==
    \E limbs \in FsLimbSeqs, ty \in OptimizationTypes :
        /\ fsOp = "none"
        /\ fsOp' = "compress"
        /\ fsTy' = ty
        /\ fsLimbs' = limbs
        /\ fsNative' = compress_elements(limbs, ty)
        /\ fsGadget' = compress_gadgets(limbs, ty)
        /\ UNCHANGED <<fsNum, fsBytes, sponge, spongeVar, sqVars, notFs>>

\* fs_rng.absorb_bytes(&element) on a new native rng.
FsAbsorbBytes ==
    \E bytes \in FsByteSeqs :
        /\ fsOp = "none"
        /\ fsOp' = "absorb_bytes"
        /\ fsBytes' = bytes
        /\ sponge' = absorb_bytes_native(sponge, bytes)
        /\ UNCHANGED <<fsTy, fsLimbs, fsNum, fsNative, fsGadget, spongeVar, sqVars, notFs>>

\* FSGadget::constant(cs, &fs_rng)
FsConstant ==
    /\ fsOp = "absorb_bytes"
    /\ fsOp' = "constant"
    /\ spongeVar' = SpongeVarConstant(sponge)
    /\ UNCHANGED <<fsTy, fsLimbs, fsNum, fsNative, fsGadget, fsBytes, sponge, sqVars, notFs>>

\* FS::get_bits_from_sponge on the native rng and
\* FSGadget::get_booleans_from_sponge on the gadget, for the same num_bits.
FsSqueezeBits ==
    \E num_bits \in 0 .. MaxSqueezeBits :
        LET native == get_bits_from_sponge(sponge, num_bits)
            gadget == get_booleans_from_sponge(spongeVar, num_bits)
        IN  /\ fsOp = "constant"
            /\ fsOp' = "squeeze_bits"
            /\ fsNum' = num_bits
            /\ fsNative' = native.out
            /\ fsGadget' = gadget.out
            /\ sponge' = native.sponge
            /\ spongeVar' = gadget.sponge
            /\ UNCHANGED <<fsTy, fsLimbs, fsBytes, sqVars, notFs>>

\* ---- squeezing non-native field elements
\* Bound of the element squeezes: num_elements.
MaxSqueezeElems == 2

\* F: the non-native (target) field, one of the prime fields of these moduli.
TargetModuli == {7, 13, CFModulus}

\* F::size_in_bits()
FSizeInBits(modulus) == BitLen(modulus)

\* get_params(F::size_in_bits(), CF::size_in_bits(), Constraints): limbs of
\* two bits, as many as cover F.
get_params_constraints(modulus) ==
    [num_limbs |-> (FSizeInBits(modulus) + 1) \div 2, bits_per_limb |-> 2]

\* AllocatedNonNativeFieldVar::get_limbs_representations(&cur, ty): cur in
\* num_limbs limbs of bits_per_limb bits, most significant limb first.
get_limbs_representations(cur, modulus) ==
    LET limb_params == get_params_constraints(modulus)
        base == 2 ^ limb_params.bits_per_limb
    IN  [k \in 1 .. limb_params.num_limbs |->
            (cur \div (base ^ (limb_params.num_limbs - k))) % base]

\* bits.chunks_exact(n): the whole chunks of n elements; a shorter remainder
\* is left out.
ChunksExact(s, n) ==
    [k \in 1 .. (Len(s) \div n) |-> SubSeq(s, (k - 1) * n + 1, k * n)]

Reverse(s) == [i \in 1 .. Len(s) |-> s[Len(s) + 1 - i]]

\* The value of limb k of one element: the sum over the set bits j of
\* lookup_table[j][k].
RECURSIVE LimbSumRange(_, _, _, _, _)
LimbSumRange(bits_le, lookup_table, k, lo, hi) ==
    IF lo > hi THEN 0
    ELSE IF lo = hi THEN (IF bits_le[lo] THEN lookup_table[lo][k] ELSE 0)
    ELSE LET mid == (lo + hi) \div 2
         IN  CFAdd(LimbSumRange(bits_le, lookup_table, k, lo, mid),
                   LimbSumRange(bits_le, lookup_table, k, mid + 1, hi))

LimbSum(bits_le, lookup_table, k, j) == LimbSumRange(bits_le, lookup_table, k, 1, j)

\* FiatShamirAlgebraicSpongeRngVar::get_gadgets_and_bits_from_sponge
get_gadgets_and_bits_from_sponge(sp, num_elements, outputs_short_elements, modulus) ==
    LET limb_params == get_params_constraints(modulus)
        num_bits_per_nonnative ==
            IF outputs_short_elements THEN 128 ELSE FSizeInBits(modulus) - 1
        squeezed == get_booleans_from_sponge(sp, num_bits_per_nonnative * num_elements)
        lookup_table ==
            [j \in 1 .. num_bits_per_nonnative |->
                get_limbs_representations(Pow(2, j - 1, modulus), modulus)]
    IN  TheOnly({
            LET chunks == ChunksExact(bits, num_bits_per_nonnative)
                dest_bits == [i \in 1 .. Len(chunks) |-> Reverse(chunks[i])]
                dest_gadgets ==
                    [i \in 1 .. Len(chunks) |->
                        [k \in 1 .. limb_params.num_limbs |->
                            LimbSum(dest_bits[i], lookup_table, k, num_bits_per_nonnative)]]
            IN  [sponge |-> squeezed.sponge, gadgets |-> dest_gadgets, bits |-> dest_bits]
            : bits \in {SubSeq(squeezed.out, 1, Len(squeezed.out))} })

\* squeeze_field_elements_and_bits (short = FALSE) and
\* squeeze_128_bits_field_elements_and_bits (short = TRUE) on the gadget rng.
FsSqueezeElements ==
    /\ fsOp = "constant"
    /\ \E num \in 0 .. MaxSqueezeElems, short \in BOOLEAN, modulus \in TargetModuli :
        LET gadget == get_gadgets_and_bits_from_sponge(spongeVar, num, short, modulus)
        IN  /\ fsOp' = "squeeze_elements"
            /\ fsNum' = num
            /\ fsShort' = short
            /\ fsTarget' = modulus
            /\ fsElems' = gadget.gadgets
            /\ fsElemBits' = gadget.bits
            /\ spongeVar' = gadget.sponge
            /\ UNCHANGED <<fsTy, fsLimbs, fsNative, fsGadget, fsBytes, sponge, notFs>>

\* ---- absorb_bytes of FiatShamirAlgebraicSpongeRngVar<F, CF, PS, S> ----

\* The native fields CF the rng is instantiated over: prime moduli of 4, 6
\* and 9 bits, so that the capacity is 3, 5 and 8 bits.
NativeFieldModuli == {13, 61, CFModulus}

\* The bit stream without the reverse of each byte's bits.
RECURSIVE AbsorbBytesBitsNoReverse(_)
AbsorbBytesBitsNoReverse(elems) ==
    IF elems = << >> THEN << >>
    ELSE ToBitsLE(Head(elems)) \o AbsorbBytesBitsNoReverse(Tail(elems))

\* The loop over elems: to_bits_le of each byte, reversed, appended to bits.
RECURSIVE AbsorbBytesBits(_)
AbsorbBytesBits(elems) ==
    IF elems = << >> THEN << >>
    ELSE Reverse(ToBitsLE(Head(elems))) \o AbsorbBytesBits(Tail(elems))

\* adjustment_factors: CF::one() doubled capacity - 1 times.
AdjustmentFactors(cf, capacity) == [j \in 1 .. capacity |-> Pow(2, j - 1, cf)]

\* The sum of terms[j].coeff over the j in lo .. hi whose bit is set, in CF.
RECURSIVE SumSetTerms(_, _, _, _, _)
SumSetTerms(cf, terms, bits, lo, hi) ==
    IF lo > hi THEN 0
    ELSE ((IF bits[terms[lo].bit] THEN terms[lo].coeff ELSE 0)
          + SumSetTerms(cf, terms, bits, lo + 1, hi)) % cf

\* One iteration of the loop over bits.chunks(capacity): chunk i, zipped in
\* reverse with the adjustment factors.  terms are the (coefficient, bit)
\* pairs added to lc; elem is the value given to alloc_input; the constraint
\* enforced is a * b = c with a and b the closures' own empty combination
\* and c the outer lc, the terms minus the allocated variable.
AbsorbBytesChunk(cf, capacity, bits, i) ==
    LET lo == (i - 1) * capacity
        len == Min(capacity, Len(bits) - lo)
        factors == AdjustmentFactors(cf, capacity)
        terms == [j \in 1 .. len |-> [coeff |-> factors[j], bit |-> lo + len + 1 - j]]
        elem == SumSetTerms(cf, terms, bits, 1, len)
    IN  [elem |-> elem,
         constraint |-> [a |-> << >>, b |-> << >>, c |-> terms, minus |-> i]]

\* absorb_bytes over the native field cf: the bits, the allocated inputs,
\* the constraints enforced and the calls of self.s.absorb, each with the
\* elements it was given.
absorb_bytes(cf, elems) ==
    LET capacity == BitLen(cf) - 1
        bits == AbsorbBytesBits(elems)
        count == (Len(bits) + capacity - 1) \div capacity
        chunks == [i \in 1 .. count |-> AbsorbBytesChunk(cf, capacity, bits, i)]
        gadgets == [i \in 1 .. count |-> chunks[i].elem]
    IN  [bits |-> bits,
         gadgets |-> gadgets,
         constraints |-> [i \in 1 .. count |-> chunks[i].constraint],
         absorbs |-> <<gadgets>>]

\* rng.absorb_bytes(cs, &bytes) on a new gadget rng over the native field cf,
\* and the same call on a second new rng with the input other.  Over the
\* field CFModulus the sponge S is the algebraic sponge above and absorbs
\* the elements; over the other fields S is recorded by the call it gets.
FsAbsorbBytesVar ==
    /\ fsOp = "none"
    /\ \E cf \in NativeFieldModuli, bytes \in FsByteSeqs :
        \E other \in {o \in FsByteSeqs : Len(o) = Len(bytes)} :
            LET run == absorb_bytes(cf, bytes)
            IN  /\ fsOp' = "absorb_bytes_var"
                /\ fsBytes' = bytes
                /\ abIn' = <<[cf |-> cf, bytes |-> bytes, other |-> other]>>
                /\ abOut' = <<[run |-> run, other |-> absorb_bytes(cf, other)]>>
                /\ spongeVar' = IF cf = CFModulus
                                THEN SpongeAbsorb(spongeVar, run.absorbs[1])
                                ELSE spongeVar
    /\ UNCHANGED <<fsTy, fsLimbs, fsNum, fsNative, fsGadget, sponge, notAb>>

\* The rng and its constraint system are dropped.
FsAbsorbBytesVarDone ==
    /\ fsOp = "absorb_bytes_var"
    /\ fsOp' = "none"
    /\ fsBytes' = << >>
    /\ spongeVar' = NewSponge
    /\ abIn' = << >>
    /\ abOut' = << >>
    /\ UNCHANGED <<fsTy, fsLimbs, fsNum, fsNative, fsGadget, sponge, notAb>>

\* The next iteration of the test loop: new rng, new constraint system.
FsNewRng ==
    /\ fsOp \in {"compress", "squeeze_bits", "squeeze_elements"}
    /\ fsOp' = "none"
    /\ fsTy' = "none"
    /\ fsLimbs' = << >>
    /\ fsNum' = 0
    /\ fsNative' = << >>
    /\ fsGadget' = << >>
    /\ fsBytes' = << >>
    /\ sponge' = NewSponge
    /\ spongeVar' = NewSponge
    /\ fsShort' = FALSE
    /\ fsTarget' = 0
    /\ fsElems' = << >>
    /\ fsElemBits' = << >>
    /\ UNCHANGED notFs

InitFS ==
    /\ family = "jacobian"
    /\ curve = [a |-> 0, b |-> 1]
    /\ SerIdle
    /\ CrhIdle
    /\ fsOp = "none"
    /\ fsTy = "none"
    /\ fsLimbs = << >>
    /\ fsNum = 0
    /\ fsNative = << >>
    /\ fsGadget = << >>
    /\ fsBytes = << >>
    /\ sponge = NewSponge
    /\ spongeVar = NewSponge
    /\ SqIdle
    /\ SpIdle
    /\ PedIdle
    /\ ExtIdle
    /\ EcIdle

NextFS ==
    \/ FsCompress
    \/ FsAbsorbBytes
    \/ FsConstant
    \/ FsSqueezeBits
    \/ FsSqueezeElements
    \/ FsNewRng
    \/ FsAbsorbBytesVar
    \/ FsAbsorbBytesVarDone

SpecFS == InitFS /\ [][NextFS]_vars

(***************************************************************************)
(* Properties of the Fiat-Shamir rng (SpecFS)                              *)
(***************************************************************************)

\* C10: for every limb sequence and both optimization types, compress_gadgets
\* yields as many limbs, with the same values, as native compress_elements;
\* and a gadget rng built with constant() from a native rng that absorbed
\* bytes squeezes bit for bit what get_bits_from_sponge gives natively.
C10_GadgetRngEqualsNative ==
    /\ (fsOp = "compress" =>
            /\ Len(fsGadget) = Len(fsNative)
            /\ fsGadget = fsNative)
    /\ (fsOp = "squeeze_bits" =>
            /\ Len(fsGadget) = Len(fsNative)
            /\ fsGadget = fsNative
            /\ spongeVar = sponge)

\* A squeeze of more than one element's bits after a non-empty absorb.
C10_Witness ==
    /\ fsOp = "squeeze_bits"
    /\ fsBytes # << >>
    /\ Len(fsGadget) > CFSizeInBits
    /\ fsGadget = fsNative

\* C11: squeezing n non-native field elements returns exactly n elements and
\* exactly n bit vectors, each of k bits (k = 128 for the short variant,
\* bitlen(F) - 1 otherwise), for every n and every pair of field sizes.
C11_SqueezeReturnsExactlyN ==
    fsOp = "squeeze_elements" =>
        LET k == IF fsShort THEN 128 ELSE FSizeInBits(fsTarget) - 1
        IN  /\ Len(fsElems) = fsNum
            /\ Len(fsElemBits) = fsNum
            /\ \A i \in 1 .. Len(fsElemBits) : Len(fsElemBits[i]) = k

(***************************************************************************)
(* 3b. The algebraic sponge, one call at a time                            *)
(***************************************************************************)

\* Bound of the call-by-call runs: calls made on one sponge.
MaxSpongeCalls == 5

SpongeInputs == {0, 1, 3}

notSp == <<serVars, crhVars, fsOp, fsTy, fsLimbs, fsNum, fsNative, fsGadget, fsBytes,
           spongeVar, sqVars, pedVars, ecVars, extVars>>

\* sponge.absorb(&[e])
SpAbsorb ==
    \E e \in SpongeInputs :
        /\ spCalls < MaxSpongeCalls
        /\ spOp' = "absorb"
        /\ spIn' = <<e>>
        /\ spOut' = << >>
        /\ spPrev' = sponge
        /\ sponge' = SpongeAbsorb(sponge, <<e>>)
        /\ spCalls' = spCalls + 1
        /\ UNCHANGED notSp

\* sponge.squeeze(1)
SpSqueeze ==
    LET squeezed == SpongeSqueeze(sponge, 1)
    IN  /\ spCalls < MaxSpongeCalls
        /\ spOp' = "squeeze"
        /\ spIn' = << >>
        /\ spOut' = squeezed.out
        /\ spPrev' = sponge
        /\ sponge' = squeezed.sponge
        /\ spCalls' = spCalls + 1
        /\ UNCHANGED notSp

\* AlgebraicSponge::new: a fresh sponge.
SpNew ==
    /\ spCalls > 0
    /\ spOp' = "new"
    /\ spIn' = << >>
    /\ spOut' = << >>
    /\ spPrev' = NewSponge
    /\ sponge' = NewSponge
    /\ spCalls' = 0
    /\ UNCHANGED notSp

InitSponge ==
    /\ family = "jacobian"
    /\ curve = [a |-> 0, b |-> 1]
    /\ SerIdle
    /\ CrhIdle
    /\ fsOp = "none"
    /\ fsTy = "none"
    /\ fsLimbs = << >>
    /\ fsNum = 0
    /\ fsNative = << >>
    /\ fsGadget = << >>
    /\ fsBytes = << >>
    /\ sponge = NewSponge
    /\ spongeVar = NewSponge
    /\ SqIdle
    /\ PedIdle
    /\ ExtIdle
    /\ EcIdle
    /\ spOp = "new"
    /\ spIn = << >>
    /\ spOut = << >>
    /\ spPrev = NewSponge
    /\ spCalls = 0

NextSponge == SpAbsorb \/ SpSqueeze \/ SpNew

SpecSponge == InitSponge /\ [][NextSponge]_vars

\* state with e added into position i (0-based).
AddInto(st, i, e) == [st EXCEPT ![i + 1] = CFAdd(@, e)]

\* C12: the sponge starts absorbing with cursor 0; the cursor stays in
\* [0, R); the mode changes only on the first absorb after a squeeze or the
\* first squeeze after an absorb; an absorb after a squeeze applies exactly one
\* permutation, at the switch; without a switch a permutation happens only
\* when the cursor reaches R.
C12_SpongeModeStateMachine ==
    /\ (spOp = "new" => sponge.mode = "absorbing" /\ sponge.cursor = 0)
    /\ sponge.cursor \in 0 .. (RATE - 1)
    /\ (sponge.mode # spPrev.mode =>
            \/ spOp = "absorb" /\ spPrev.mode = "squeezing"
            \/ spOp = "squeeze" /\ spPrev.mode = "absorbing")
    /\ (spOp = "absorb" => sponge.mode = "absorbing")
    /\ (spOp = "squeeze" => sponge.mode = "squeezing")
    /\ (spOp = "absorb" /\ spPrev.mode = "squeezing" =>
            /\ sponge.state = AddInto(Permute(spPrev.state), 0, spIn[1])
            /\ sponge.cursor = 1)
    /\ (spOp = "absorb" /\ spPrev.mode = "absorbing" =>
            IF spPrev.cursor + 1 = RATE
            THEN /\ sponge.state = Permute(AddInto(spPrev.state, spPrev.cursor, spIn[1]))
                 /\ sponge.cursor = 0
            ELSE /\ sponge.state = AddInto(spPrev.state, spPrev.cursor, spIn[1])
                 /\ sponge.cursor = spPrev.cursor + 1)
    /\ (spOp = "squeeze" /\ spPrev.mode = "absorbing" =>
            /\ spOut = <<Permute(spPrev.state)[1]>>
            /\ sponge.state = Permute(spPrev.state)
            /\ sponge.cursor = 1)
    /\ (spOp = "squeeze" /\ spPrev.mode = "squeezing" =>
            /\ spOut = <<spPrev.state[spPrev.cursor + 1]>>
            /\ IF spPrev.cursor + 1 = RATE
               THEN sponge.state = Permute(spPrev.state) /\ sponge.cursor = 0
               ELSE sponge.state = spPrev.state /\ sponge.cursor = spPrev.cursor + 1)

\* An absorb right after a squeeze that left the cursor in mid-rate.
C12_Witness ==
    /\ spOp = "absorb"
    /\ spPrev.mode = "squeezing"
    /\ spPrev.cursor = 1
    /\ sponge.mode = "absorbing"
    /\ sponge.state # AddInto(spPrev.state, 0, spIn[1])

(***************************************************************************)
(***************************************************************************)
(* 4. Short Weierstrass curve arithmetic                                   *)
(*    short_weierstrass_jacobian.rs / short_weierstrass_projective.rs      *)
(***************************************************************************)

\* ---- P::BaseField arithmetic
FAdd(x, y) == (x + y) % Q

FSub(x, y) == ((x + Q) - y) % Q

FMul(x, y) == (x * y) % Q

FNeg(x) == (Q - x) % Q

FSquare(x) == (x * x) % Q

FDouble(x) == (x + x) % Q

\* Field::inverse of a non-zero element.
FInverse(x) == Pow(x, Q - 2, Q)

\* ---- the curve parameters (impl SWModelParameters)
\* The curves the arithmetic is run on: [a, b] with the cofactor, the modulus
\* of the scalar field and the affine generator of the prime-order subgroup.
EcParameters ==
    { [a |-> 0, b |-> 1, cofactor |-> 2, r |-> 3, gx |-> 0, gy |-> 4],
      [a |-> 3, b |-> 0, cofactor |-> 2, r |-> 5, gx |-> 1, gy |-> 2],
      [a |-> 2, b |-> 1, cofactor |-> 1, r |-> 7, gx |-> 1, gy |-> 2] }

EcCurves == {[a |-> p.a, b |-> p.b] : p \in EcParameters}

ParametersOf(c) == CHOOSE p \in EcParameters : p.a = c.a /\ p.b = c.b

\* P::COEFF_A, P::mul_by_a, P::add_b
COEFF_A == curve.a

mul_by_a(x) == FMul(curve.a, x)

add_b(x) == FAdd(x, curve.b)

\* P::COFACTOR
COFACTOR == ParametersOf(curve).cofactor

\* P::ScalarField: the prime field of this modulus; its characteristic.
ScalarModulus == ParametersOf(curve).r

\* The width of the big-integer representation BitIteratorBE walks over.
ScalarReprBits == 4

\* BitIteratorBE::new(repr): all the bits of the representation, most
\* significant first, leading zeros included.
BitIteratorBE(n) == [i \in 1 .. ScalarReprBits |-> (n \div (2 ^ (ScalarReprBits - i))) % 2 = 1]

\* ---- GroupProjective
\* GroupProjective::new
NewProjective(x, y, z) == [x |-> x, y |-> y, z |-> z]

\* Zero for GroupProjective
ProjectiveZero == NewProjective(0, 1, 0)

ProjectiveIsZero(p) == p.z = 0

\* ProjectiveCurve::is_normalized
is_normalized(g) == ProjectiveIsZero(g) \/ g.z = 1

\* double_in_place (Jacobian), the branch for COEFF_A = 0, with E = 2*A.
JacobianDoubleZeroATwoA(p) ==
    LET a == FSquare(p.x)
        b == FSquare(p.y)
        c == FSquare(b)
        d == FDouble(FSub(FSub(FSquare(FAdd(p.x, b)), a), c))
        e == FDouble(a)
        f == FSquare(e)
        z3 == FDouble(FMul(p.z, p.y))
        x3 == FSub(FSub(f, d), d)
        c8 == FDouble(FDouble(FDouble(c)))
        y3 == FSub(FMul(FSub(d, x3), e), c8)
    IN  NewProjective(x3, y3, z3)

\* double_in_place (Jacobian): the branch taken when P::COEFF_A.is_zero()
JacobianDoubleZeroA(p) ==
    LET a == FSquare(p.x)
        b == FSquare(p.y)
        c == FSquare(b)
        d == FDouble(FSub(FSub(FSquare(FAdd(p.x, b)), a), c))
        e == FAdd(a, FDouble(a))
        f == FSquare(e)
        z3 == FDouble(FMul(p.z, p.y))
        x3 == FSub(FSub(f, d), d)
        c8 == FDouble(FDouble(FDouble(c)))
        y3 == FSub(FMul(FSub(d, x3), e), c8)
    IN  NewProjective(x3, y3, z3)

\* double_in_place (Jacobian): the branch for any COEFF_A (dbl-2009-l)
JacobianDoubleGeneralA(p) ==
    LET xx == FSquare(p.x)
        yy == FSquare(p.y)
        yyyy == FSquare(yy)
        zz == FSquare(p.z)
        s == FDouble(FSub(FSub(FSquare(FAdd(p.x, yy)), xx), yyyy))
        m == FAdd(FAdd(FAdd(xx, xx), xx), mul_by_a(FSquare(zz)))
        t == FSub(FSquare(m), FDouble(s))
        yyyy8 == FDouble(FDouble(FDouble(yyyy)))
        y3 == FSub(FMul(m, FSub(s, t)), yyyy8)
        z3 == FSub(FSub(FSquare(FAdd(p.y, p.z)), yy), zz)
    IN  NewProjective(t, y3, z3)

\* double_in_place (Jacobian) made to take the given branch after its test
\* of is_zero().
JacobianDoubleBranch(zero_a, p) ==
    IF ProjectiveIsZero(p) THEN p
    ELSE IF zero_a THEN JacobianDoubleZeroA(p)
    ELSE JacobianDoubleGeneralA(p)

\* Group::double_in_place (Jacobian)
JacobianDoubleInPlace(p) == JacobianDoubleBranch(COEFF_A = 0, p)

\* Group::double_in_place (projective)
ProjectiveDoubleInPlace(p) ==
    IF ProjectiveIsZero(p) THEN p
    ELSE LET xx == FSquare(p.x)
             zz == FSquare(p.z)
             w == FAdd(mul_by_a(zz), FAdd(xx, FDouble(xx)))
             s == FDouble(FMul(p.y, p.z))
             sss == FMul(FSquare(s), s)
             r == FMul(p.y, s)
             rr == FSquare(r)
             b == FSub(FSub(FSquare(FAdd(p.x, r)), xx), rr)
             h == FSub(FSquare(w), FAdd(b, b))
         IN  NewProjective(FMul(h, s), FSub(FMul(w, FSub(b, h)), FAdd(rr, rr)), sss)

double_in_place(fam, p) ==
    IF fam = "jacobian" THEN JacobianDoubleInPlace(p) ELSE ProjectiveDoubleInPlace(p)

\* PartialEq for GroupProjective (Jacobian) comparing the x coordinates only.
JacobianEqXOnly(p, other) ==
    IF ProjectiveIsZero(p) THEN ProjectiveIsZero(other)
    ELSE IF ProjectiveIsZero(other) THEN FALSE
    ELSE LET z1 == FSquare(p.z)
             z2 == FSquare(other.z)
         IN  FMul(p.x, z2) = FMul(other.x, z1)

\* impl PartialEq for GroupProjective (Jacobian)
JacobianEq(p, other) ==
    IF ProjectiveIsZero(p) THEN ProjectiveIsZero(other)
    ELSE IF ProjectiveIsZero(other) THEN FALSE
    ELSE LET z1 == FSquare(p.z)
             z2 == FSquare(other.z)
         IN  ~ (\/ FMul(p.x, z2) # FMul(other.x, z1)
                \/ FMul(p.y, FMul(z2, other.z)) # FMul(other.y, FMul(z1, p.z)))

\* impl PartialEq for GroupProjective (projective)
ProjectiveEq(p, other) ==
    IF ProjectiveIsZero(p) THEN ProjectiveIsZero(other)
    ELSE IF ProjectiveIsZero(other) THEN FALSE
    ELSE /\ FMul(p.x, other.z) = FMul(other.x, p.z)
         /\ FMul(p.y, other.z) = FMul(other.y, p.z)

eq(fam, p, other) ==
    IF fam = "jacobian" THEN JacobianEq(p, other) ELSE ProjectiveEq(p, other)

\* AddAssign for GroupProjective (Jacobian) without the test for equal points.
JacobianAddAssignNoDouble(p, other) ==
    IF ProjectiveIsZero(p) THEN other
    ELSE IF ProjectiveIsZero(other) THEN p
    ELSE LET z1z1 == FSquare(p.z)
             z2z2 == FSquare(other.z)
             u1 == FMul(p.x, z2z2)
             u2 == FMul(other.x, z1z1)
             s1 == FMul(FMul(p.y, other.z), z2z2)
             s2 == FMul(FMul(other.y, p.z), z1z1)
             h == FSub(u2, u1)
             i == FSquare(FDouble(h))
             j == FMul(h, i)
             r == FDouble(FSub(s2, s1))
             v == FMul(u1, i)
             x3 == FSub(FSub(FSquare(r), j), FDouble(v))
             y3 == FSub(FMul(r, FSub(v, x3)), FDouble(FMul(s1, j)))
             z3 == FMul(FSub(FSub(FSquare(FAdd(p.z, other.z)), z1z1), z2z2), h)
         IN  NewProjective(x3, y3, z3)

\* impl AddAssign<&Self> for GroupProjective (Jacobian)
JacobianAddAssign(p, other) ==
    IF ProjectiveIsZero(p) THEN other
    ELSE IF ProjectiveIsZero(other) THEN p
    ELSE LET z1z1 == FSquare(p.z)
             z2z2 == FSquare(other.z)
             u1 == FMul(p.x, z2z2)
             u2 == FMul(other.x, z1z1)
             s1 == FMul(FMul(p.y, other.z), z2z2)
             s2 == FMul(FMul(other.y, p.z), z1z1)
         IN  IF u1 = u2 /\ s1 = s2
             THEN JacobianDoubleInPlace(p)
             ELSE LET h == FSub(u2, u1)
                      i == FSquare(FDouble(h))
                      j == FMul(h, i)
                      r == FDouble(FSub(s2, s1))
                      v == FMul(u1, i)
                      x3 == FSub(FSub(FSquare(r), j), FDouble(v))
                      y3 == FSub(FMul(r, FSub(v, x3)), FDouble(FMul(s1, j)))
                      z3 == FMul(FSub(FSub(FSquare(FAdd(p.z, other.z)), z1z1), z2z2), h)
                  IN  NewProjective(x3, y3, z3)

\* impl AddAssign<&Self> for GroupProjective (projective)
ProjectiveAddAssign(p, other) ==
    IF ProjectiveIsZero(p) THEN other
    ELSE IF ProjectiveIsZero(other) THEN p
    ELSE IF ProjectiveEq(p, other)
    THEN ProjectiveDoubleInPlace(p)
    ELSE LET y1z2 == FMul(p.y, other.z)
             x1z2 == FMul(p.x, other.z)
             z1z2 == FMul(p.z, other.z)
             u == FSub(FMul(p.z, other.y), y1z2)
             uu == FSquare(u)
             v == FSub(FMul(p.z, other.x), x1z2)
             vv == FSquare(v)
             vvv == FMul(v, vv)
             r == FMul(vv, x1z2)
             a == FSub(FMul(uu, z1z2), FAdd(FAdd(vvv, r), r))
         IN  NewProjective(FMul(v, a),
                           FSub(FMul(FSub(r, a), u), FMul(vvv, y1z2)),
                           FMul(vvv, z1z2))

add_assign(fam, p, other) ==
    IF fam = "jacobian" THEN JacobianAddAssign(p, other) ELSE ProjectiveAddAssign(p, other)

\* impl Neg for GroupProjective
ProjectiveNeg(p) ==
    IF ~ ProjectiveIsZero(p) THEN NewProjective(p.x, FNeg(p.y), p.z) ELSE p

\* impl SubAssign<&Self> for GroupProjective
sub_assign(fam, p, other) == add_assign(fam, p, ProjectiveNeg(other))


\* add_assign_mixed (Jacobian) without its test for equal points.
JacobianAddAssignMixedNoDouble(p, other) ==
    IF AffineIsZero(other) THEN p
    ELSE IF ProjectiveIsZero(p) THEN NewProjective(other.x, other.y, 1)
    ELSE LET z1z1 == FSquare(p.z)
             u2 == FMul(other.x, z1z1)
             s2 == FMul(FMul(other.y, p.z), z1z1)
             h == FSub(u2, p.x)
             hh == FSquare(h)
             i == FDouble(FDouble(hh))
             j == FMul(h, i)
             r == FDouble(FSub(s2, p.y))
             v == FMul(p.x, i)
             x3 == FSub(FSub(FSub(FSquare(r), j), v), v)
             j2 == FDouble(FMul(j, p.y))
             y3 == FSub(FMul(FSub(v, x3), r), j2)
             z3 == FSub(FSub(FSquare(FAdd(p.z, h)), z1z1), hh)
         IN  NewProjective(x3, y3, z3)

\* ProjectiveCurve::add_assign_mixed (Jacobian)
JacobianAddAssignMixed(p, other) ==
    IF AffineIsZero(other) THEN p
    ELSE IF ProjectiveIsZero(p) THEN NewProjective(other.x, other.y, 1)
    ELSE LET z1z1 == FSquare(p.z)
             u2 == FMul(other.x, z1z1)
             s2 == FMul(FMul(other.y, p.z), z1z1)
         IN  IF p.x = u2 /\ p.y = s2
             THEN JacobianDoubleInPlace(p)
             ELSE LET h == FSub(u2, p.x)
                      hh == FSquare(h)
                      i == FDouble(FDouble(hh))
                      j == FMul(h, i)
                      r == FDouble(FSub(s2, p.y))
                      v == FMul(p.x, i)
                      x3 == FSub(FSub(FSub(FSquare(r), j), v), v)
                      j2 == FDouble(FMul(j, p.y))
                      y3 == FSub(FMul(FSub(v, x3), r), j2)
                      z3 == FSub(FSub(FSquare(FAdd(p.z, h)), z1z1), hh)
                  IN  NewProjective(x3, y3, z3)

\* ProjectiveCurve::add_assign_mixed (projective)
ProjectiveAddAssignMixed(p, other) ==
    IF AffineIsZero(other) THEN p
    ELSE IF ProjectiveIsZero(p) THEN NewProjective(other.x, other.y, 1)
    ELSE LET v0 == FMul(other.x, p.z)
             u0 == FMul(other.y, p.z)
         IN  IF u0 = p.y /\ v0 = p.x
             THEN ProjectiveDoubleInPlace(p)
             ELSE LET u == FSub(u0, p.y)
                      uu == FSquare(u)
                      v == FSub(v0, p.x)
                      vv == FSquare(v)
                      vvv == FMul(v, vv)
                      r == FMul(vv, p.x)
                      a == FSub(FSub(FMul(uu, p.z), vvv), FDouble(r))
                  IN  NewProjective(FMul(v, a),
                                    FSub(FMul(u, FSub(r, a)), FMul(vvv, p.y)),
                                    FMul(vvv, p.z))

add_assign_mixed(fam, p, other) ==
    IF fam = "jacobian" THEN JacobianAddAssignMixed(p, other)
    ELSE ProjectiveAddAssignMixed(p, other)

\* impl From<GroupAffine> for GroupProjective
ProjectiveFromAffine(p) ==
    IF AffineIsZero(p) THEN ProjectiveZero ELSE NewProjective(p.x, p.y, 1)

\* From<GroupProjective> for GroupAffine (Jacobian) without the test for zero:
\* the inverse of 0 taken as 0.
JacobianAffineFromProjectiveNoZero(p) ==
    IF p.z = 1 THEN NewAffine(p.x, p.y, FALSE)
    ELSE LET zinv == FInverse(p.z)
             zinv_squared == FSquare(zinv)
         IN  NewAffine(FMul(p.x, zinv_squared), FMul(p.y, FMul(zinv_squared, zinv)), FALSE)

\* impl From<GroupProjective> for GroupAffine (Jacobian)
JacobianAffineFromProjective(p) ==
    IF ProjectiveIsZero(p) THEN AffineZero
    ELSE IF p.z = 1 THEN NewAffine(p.x, p.y, FALSE)
    ELSE LET zinv == FInverse(p.z)
             zinv_squared == FSquare(zinv)
         IN  NewAffine(FMul(p.x, zinv_squared), FMul(p.y, FMul(zinv_squared, zinv)), FALSE)

\* impl From<GroupProjective> for GroupAffine (projective)
ProjectiveAffineFromProjective(p) ==
    IF ProjectiveIsZero(p) THEN AffineZero
    ELSE IF p.z = 1 THEN NewAffine(p.x, p.y, FALSE)
    ELSE LET z_inv == FInverse(p.z)
         IN  NewAffine(FMul(p.x, z_inv), FMul(p.y, z_inv), FALSE)

into_affine(fam, p) ==
    IF fam = "jacobian" THEN JacobianAffineFromProjective(p)
    ELSE ProjectiveAffineFromProjective(p)

\* AffineCurve::mul_bits: the state after the first k bits.
RECURSIVE MulBitsLoop(_, _, _, _)
MulBitsLoop(fam, p, bits, k) ==
    IF k = 0 THEN ProjectiveZero
    ELSE LET doubled == double_in_place(fam, MulBitsLoop(fam, p, bits, k - 1))
         IN  IF bits[k] THEN add_assign_mixed(fam, doubled, p) ELSE doubled

mul_bits(fam, p, bits) == MulBitsLoop(fam, p, bits, Len(bits))

\* scale_by_cofactor with the cofactor taken as one.
scale_by_cofactor_one(fam, p) == mul_bits(fam, p, BitIteratorBE(1))

\* GroupAffine::scale_by_cofactor
scale_by_cofactor(fam, p) == mul_bits(fam, p, BitIteratorBE(COFACTOR))

\* AffineCurve::is_in_correct_subgroup_assuming_on_curve
is_in_correct_subgroup_assuming_on_curve(fam, p) ==
    ProjectiveIsZero(mul_bits(fam, p, BitIteratorBE(ScalarModulus)))

\* impl Mul<ScalarField> for GroupProjective: [res, found_one] after the
\* first k bits.
RECURSIVE ProjectiveMulLoop(_, _, _, _)
ProjectiveMulLoop(fam, p, bits, k) ==
    IF k = 0 THEN [res |-> ProjectiveZero, found_one |-> FALSE]
    ELSE LET before == ProjectiveMulLoop(fam, p, bits, k - 1)
             doubled == IF before.found_one THEN double_in_place(fam, before.res)
                        ELSE before.res
             found == IF before.found_one THEN TRUE ELSE bits[k]
         IN  [res |-> IF bits[k] THEN add_assign(fam, doubled, p) ELSE doubled,
              found_one |-> found]

\* impl Mul<ScalarField> for GroupProjective, with no doubling at the first
\* set bit and none at the bit after it.
RECURSIVE ProjectiveMulLoopLate(_, _, _, _)
ProjectiveMulLoopLate(fam, p, bits, k) ==
    IF k = 0 THEN [res |-> ProjectiveZero, found_one |-> FALSE, seen |-> FALSE]
    ELSE LET before == ProjectiveMulLoopLate(fam, p, bits, k - 1)
             doubled == IF before.found_one THEN double_in_place(fam, before.res)
                        ELSE before.res
         IN  [res |-> IF bits[k] THEN add_assign(fam, doubled, p) ELSE doubled,
              found_one |-> before.seen,
              seen |-> before.seen \/ bits[k]]

ProjectiveMulLate(fam, p, scalar) ==
    ProjectiveMulLoopLate(fam, p, BitIteratorBE(scalar), ScalarReprBits).res

ProjectiveMul(fam, p, scalar) ==
    ProjectiveMulLoop(fam, p, BitIteratorBE(scalar), ScalarReprBits).res

\* impl Neg for GroupAffine
AffineNeg(p) ==
    IF ~ AffineIsZero(p) THEN NewAffine(p.x, FNeg(p.y), FALSE) ELSE p

\* impl AddAssign<&Self> for GroupAffine
AffineAddAssign(fam, p, other) ==
    into_affine(fam, add_assign_mixed(fam, ProjectiveFromAffine(p), other))

\* impl SubAssign<&Self> for GroupAffine
AffineSubAssign(fam, p, other) == AffineAddAssign(fam, p, AffineNeg(other))

\* Group::double for GroupAffine
AffineDouble(fam, p) == AffineAddAssign(fam, p, p)

\* impl Mul<ScalarField> for GroupAffine
AffineMul(fam, p, scalar) == into_affine(fam, mul_bits(fam, p, BitIteratorBE(scalar)))

\* Field::sqrt: << >> for a non-residue, else one of the roots.
Sqrt(v) ==
    IF \E y \in BaseField : FSquare(y) = v
    THEN <<CHOOSE y \in BaseField : FSquare(y) = v>>
    ELSE << >>

\* AffineCurve::from_x_coordinate: << >> or <<point>>.
from_x_coordinate(x, greatest) ==
    LET x3b == add_b(FAdd(FMul(FSquare(x), x), mul_by_a(x)))
        root == Sqrt(x3b)
    IN  IF root = << >> THEN << >>
        ELSE LET y == root[1]
                 negy == FNeg(y)
             IN  <<NewAffine(x, IF (y < negy) # greatest THEN y ELSE negy, FALSE)>>

\* AffineCurve::prime_subgroup_generator
AffinePrimeSubgroupGenerator ==
    NewAffine(ParametersOf(curve).gx, ParametersOf(curve).gy, FALSE)

\* ProjectiveCurve::prime_subgroup_generator
ProjectivePrimeSubgroupGenerator == ProjectiveFromAffine(AffinePrimeSubgroupGenerator)


\* ---- batch_normalization
\* v.iter_mut().filter(|g| !g.is_normalized()): the positions it yields.
RECURSIVE NotNormalized(_, _)
NotNormalized(v, n) ==
    IF n = 0 THEN << >>
    ELSE IF is_normalized(v[n]) THEN NotNormalized(v, n - 1)
    ELSE Append(NotNormalized(v, n - 1), n)

\* First pass: prod = [a, ab, abc, ...] over the positions idx.
RECURSIVE FirstPass(_, _, _)
FirstPass(v, idx, k) ==
    IF k = 0 THEN << >>
    ELSE LET before == FirstPass(v, idx, k - 1)
             tmp == IF k = 1 THEN 1 ELSE before[k - 1]
         IN  Append(before, FMul(tmp, v[idx[k]].z))

\* Second pass, backwards from position idx[k]: g.z := tmp * s.
RECURSIVE SecondPass(_, _, _, _, _)
SecondPass(v, idx, prod, k, tmp) ==
    IF k = 0 THEN v
    ELSE LET g == v[idx[k]]
             s == IF k > 1 THEN prod[k - 1] ELSE 1
             newtmp == FMul(tmp, g.z)
         IN  SecondPass([v EXCEPT ![idx[k]].z = FMul(tmp, s)], idx, prod, k - 1, newtmp)

\* The two serial Montgomery passes: every z that is neither 0 nor 1 inverted.
MontgomeryPasses(v) ==
    LET idx == NotNormalized(v, Len(v))
        prod == FirstPass(v, idx, Len(idx))
        tmp == FInverse(IF Len(idx) = 0 THEN 1 ELSE prod[Len(idx)])
    IN  SecondPass(v, idx, prod, Len(idx), tmp)

\* The affine transformation of one element, keeping z = 1/z.
JacobianAffineTransformKeepZ(g) ==
    LET z2 == FSquare(g.z)
    IN  NewProjective(FMul(g.x, z2), FMul(g.y, FMul(z2, g.z)), g.z)

\* The affine transformation of one element (Jacobian): g holds z = 1/z.
JacobianAffineTransform(g) ==
    LET z2 == FSquare(g.z)
    IN  NewProjective(FMul(g.x, z2), FMul(g.y, FMul(z2, g.z)), 1)

\* The affine transformation of one element (projective): g holds z = 1/z.
ProjectiveAffineTransform(g) ==
    NewProjective(FMul(g.x, g.z), FMul(g.y, g.z), 1)

AffineTransform(fam, g) ==
    IF fam = "jacobian" THEN JacobianAffineTransform(g) ELSE ProjectiveAffineTransform(g)

\* ProjectiveCurve::batch_normalization (the serial final pass)
batch_normalization(fam, v) ==
    LET inverted == MontgomeryPasses(v)
    IN  [i \in 1 .. Len(v) |->
            IF ~ is_normalized(inverted[i]) THEN AffineTransform(fam, inverted[i])
            ELSE inverted[i]]

\* ---- the points the operations are run on
FiniteAffine == ValidAffine \ {AffineZero}

\* The triple with the given non-zero z that represents the affine point p.
Representation(fam, p, z) ==
    IF fam = "jacobian"
    THEN NewProjective(FMul(p.x, FSquare(z)), FMul(p.y, FMul(FSquare(z), z)), z)
    ELSE NewProjective(FMul(p.x, z), FMul(p.y, z), z)

\* Every GroupProjective value of the curve: all representations of the
\* finite points, and every triple with z = 0.
ProjPoints ==
    {Representation(family, p, z) : p \in FiniteAffine, z \in 1 .. (Q - 1)}
        \cup {NewProjective(x, y, 0) : x \in BaseField, y \in BaseField}

\* Every triple of base-field elements, on the curve or not.
AllTriples == {NewProjective(x, y, z) : x \in BaseField, y \in BaseField, z \in BaseField}

\* The affine point a triple with z # 0 represents, by the definition of the
\* coordinates (X/Z^2, Y/Z^3 or X/Z, Y/Z).
AffineOf(fam, p) ==
    IF fam = "jacobian"
    THEN NewAffine(FMul(p.x, FSquare(FInverse(p.z))),
                   FMul(p.y, FMul(FSquare(FInverse(p.z)), FInverse(p.z))), FALSE)
    ELSE NewAffine(FMul(p.x, FInverse(p.z)), FMul(p.y, FInverse(p.z)), FALSE)

\* Bounds of the slices handed to batch_normalization: serial and parallel.
MaxSliceLen == 3

MaxWorkers == 2

\* Elements of the slices: infinity points, points with z = 1, points with
\* another z.
SlicePoints ==
    { ProjectiveZero,
      NewProjective(2, 3, 0),
      Representation(family, AffinePrimeSubgroupGenerator, 1),
      Representation(family, AffinePrimeSubgroupGenerator, 2),
      Representation(family, AffineNeg(AffinePrimeSubgroupGenerator), 3),
      Representation(family, AffineNeg(AffinePrimeSubgroupGenerator), 4) }

\* P::ScalarField
Scalars == 0 .. (ScalarModulus - 1)


\* ---- the operations, one call at a time
notEc == <<family, curve, wrote, buf, res, crhVars, fsVars, sqVars, spVars, pedVars, extVars>>

\* GroupProjective::batch_normalization(&mut v), serial final pass.
EcBatchNormalization ==
    /\ ecOp = "none"
    /\ \E v \in SeqsUpTo(SlicePoints, MaxSliceLen) :
        /\ ecOp' = "batch_normalization"
        /\ ecIn' = v
        /\ ecOut' = batch_normalization(family, v)
        /\ UNCHANGED <<bnV, bnPc, bnZ2, notEc>>

\* p += &other on GroupProjective, with double(p) beside it.
EcAddAssign ==
    /\ ecOp = "none"
    /\ \E p \in ProjPoints, other \in ProjPoints :
        /\ ecOp' = "add_assign"
        /\ ecIn' = <<[p |-> p, other |-> other]>>
        /\ ecOut' = <<[sum |-> add_assign(family, p, other),
                       double |-> double_in_place(family, p)]>>
        /\ UNCHANGED <<bnV, bnPc, bnZ2, notEc>>

\* Scalar multiplications of p by s, t, s*t and s+t.
EcMul ==
    /\ ecOp = "none"
    /\ \E p \in ProjPoints, s \in Scalars, t \in Scalars :
        /\ ecOp' = "mul"
        /\ ecIn' = <<[p |-> p, s |-> s, t |-> t]>>
        /\ ecOut' =
             <<[s_tp |-> ProjectiveMul(family, ProjectiveMul(family, p, t), s),
                st_p |-> ProjectiveMul(family, p, (s * t) % ScalarModulus),
                sum_p |-> ProjectiveMul(family, p, (s + t) % ScalarModulus),
                sp_tp |-> add_assign(family, ProjectiveMul(family, p, s),
                                     ProjectiveMul(family, p, t)),
                projective |-> ProjectiveMul(family, p, s),
                affine |-> mul_bits(family, into_affine(family, p), BitIteratorBE(s))]>>
        /\ UNCHANGED <<bnV, bnPc, bnZ2, notEc>>

\* p == other on GroupProjective.
EcEq ==
    /\ ecOp = "none"
    /\ \E p \in AllTriples, other \in AllTriples :
        /\ ecOp' = "eq"
        /\ ecIn' = <<[p |-> p, other |-> other]>>
        /\ ecOut' = <<eq(family, p, other)>>
        /\ UNCHANGED <<bnV, bnPc, bnZ2, notEc>>

AffineUnaryOps == {"zero", "neg", "double"}

AffineBinaryOps == {"add", "sub"}

\* An operation that returns a GroupAffine, on operands that are valid.
EcAffineOp ==
    /\ ecOp = "none"
    /\ \E op \in AffineUnaryOps \cup AffineBinaryOps \cup {"mul"},
          p \in ValidAffine, other \in ValidAffine, s \in Scalars :
        /\ op \in AffineUnaryOps \cup {"mul"} => other = AffineZero
        /\ op \in AffineUnaryOps \cup AffineBinaryOps => s = 0
        /\ op = "zero" => p = AffineZero
        /\ ecOp' = "affine"
        /\ ecIn' = <<[op |-> op, p |-> p, other |-> other, s |-> s]>>
        /\ ecOut' = <<CASE op = "zero" -> AffineZero
                        [] op = "neg" -> AffineNeg(p)
                        [] op = "double" -> AffineDouble(family, p)
                        [] op = "add" -> AffineAddAssign(family, p, other)
                        [] op = "sub" -> AffineSubAssign(family, p, other)
                        [] op = "mul" -> AffineMul(family, p, s)>>
        /\ UNCHANGED <<bnV, bnPc, bnZ2, notEc>>

\* GroupAffine::from(p) for a GroupProjective p.
EcIntoAffine ==
    /\ ecOp = "none"
    /\ \E p \in ProjPoints :
        /\ ecOp' = "into_affine"
        /\ ecIn' = <<p>>
        /\ ecOut' = <<into_affine(family, p)>>
        /\ UNCHANGED <<bnV, bnPc, bnZ2, notEc>>

\* Distribution<GroupAffine>::sample: the x and greatest of the last turn of
\* the loop, the one from_x_coordinate accepts.
EcSampleAffine ==
    /\ ecOp = "none"
    /\ \E x \in BaseField, greatest \in BOOLEAN :
        /\ from_x_coordinate(x, greatest) # << >>
        /\ ecOp' = "sample_affine"
        /\ ecIn' = <<[x |-> x, greatest |-> greatest]>>
        /\ ecOut' =
              <<into_affine(family, scale_by_cofactor(family, from_x_coordinate(x, greatest)[1]))>>
        /\ UNCHANGED <<bnV, bnPc, bnZ2, notEc>>

\* Distribution<GroupProjective>::sample
EcSampleProjective ==
    /\ ecOp = "none"
    /\ \E s \in Scalars :
        /\ ecOp' = "sample_projective"
        /\ ecIn' = <<s>>
        /\ ecOut' =
              <<into_affine(family, ProjectiveMul(family, ProjectivePrimeSubgroupGenerator, s))>>
        /\ UNCHANGED <<bnV, bnPc, bnZ2, notEc>>

\* G1Affine::prime_subgroup_generator()
EcGenerator ==
    /\ ecOp = "none"
    /\ ecOp' = "prime_subgroup_generator"
    /\ ecIn' = << >>
    /\ ecOut' = <<AffinePrimeSubgroupGenerator>>
    /\ UNCHANGED <<bnV, bnPc, bnZ2, notEc>>


\* ---- the parallel final pass of the Jacobian batch_normalization
\* v.par_iter_mut().filter(..).for_each(|g| ..): one worker per element; pc is
\* where the worker is in the closure.
\* One step of worker i with a single z2 shared by all workers.
ParWorkerStepSharedZ2(v, pc, z2, i) ==
    CASE pc[i] = "filter" ->
            [v |-> v, z2 |-> z2,
             pc |-> [pc EXCEPT ![i] = IF is_normalized(v[i]) THEN "done" ELSE "z2"]]
      [] pc[i] = "z2" ->
            [v |-> v, z2 |-> [z2 EXCEPT ![1] = FSquare(v[i].z)],
             pc |-> [pc EXCEPT ![i] = "x"]]
      [] pc[i] = "x" ->
            [v |-> [v EXCEPT ![i].x = FMul(@, z2[1])], z2 |-> z2,
             pc |-> [pc EXCEPT ![i] = "y"]]
      [] pc[i] = "y" ->
            [v |-> [v EXCEPT ![i].y = FMul(@, FMul(z2[1], v[i].z))], z2 |-> z2,
             pc |-> [pc EXCEPT ![i] = "z"]]
      [] pc[i] = "z" ->
            [v |-> [v EXCEPT ![i].z = 1], z2 |-> z2,
             pc |-> [pc EXCEPT ![i] = "done"]]

\* One step of worker i: the filter, then the four statements of the closure.
ParWorkerStep(v, pc, z2, i) ==
    CASE pc[i] = "filter" ->
            [v |-> v, z2 |-> z2,
             pc |-> [pc EXCEPT ![i] = IF is_normalized(v[i]) THEN "done" ELSE "z2"]]
      [] pc[i] = "z2" ->
            [v |-> v, z2 |-> [z2 EXCEPT ![i] = FSquare(v[i].z)],
             pc |-> [pc EXCEPT ![i] = "x"]]
      [] pc[i] = "x" ->
            [v |-> [v EXCEPT ![i].x = FMul(@, z2[i])], z2 |-> z2,
             pc |-> [pc EXCEPT ![i] = "y"]]
      [] pc[i] = "y" ->
            [v |-> [v EXCEPT ![i].y = FMul(@, FMul(z2[i], v[i].z))], z2 |-> z2,
             pc |-> [pc EXCEPT ![i] = "z"]]
      [] pc[i] = "z" ->
            [v |-> [v EXCEPT ![i].z = 1], z2 |-> z2,
             pc |-> [pc EXCEPT ![i] = "done"]]

\* batch_normalization(&mut v) with the parallel feature: the two serial
\* passes, then the workers are released.
EcParStart ==
    /\ ecOp = "none"
    /\ family = "jacobian"
    /\ \E v \in SeqsUpTo(SlicePoints, MaxWorkers) :
        /\ ecOp' = "par_batch_normalization"
        /\ ecIn' = v
        /\ ecOut' = << >>
        /\ bnV' = MontgomeryPasses(v)
        /\ bnPc' = [i \in 1 .. Len(v) |-> "filter"]
        /\ bnZ2' = [i \in 1 .. Len(v) |-> 0]
        /\ UNCHANGED notEc

\* A worker takes its next step.
EcParStep ==
    \E i \in 1 .. Len(bnPc) :
        /\ ecOp = "par_batch_normalization"
        /\ bnPc[i] # "done"
        /\ LET next == ParWorkerStep(bnV, bnPc, bnZ2, i)
           IN  /\ bnV' = next.v
               /\ bnPc' = next.pc
               /\ bnZ2' = next.z2
        /\ UNCHANGED <<ecOp, ecIn, ecOut, notEc>>

ParDone == \A i \in 1 .. Len(bnPc) : bnPc[i] = "done"

\* for_each has joined every worker: batch_normalization returns.
EcParJoin ==
    /\ ecOp = "par_batch_normalization"
    /\ ParDone
    /\ ecOp' = "par_batch_normalization_done"
    /\ ecOut' = bnV
    /\ UNCHANGED <<ecIn, bnV, bnPc, bnZ2, notEc>>

\* self.add_assign_mixed(&other), beside self += other.into_projective().
EcAddAssignMixed ==
    /\ ecOp = "none"
    /\ \E p \in ProjPoints, other \in ValidAffine :
        /\ ecOp' = "add_assign_mixed"
        /\ ecIn' = <<[p |-> p, other |-> other]>>
        /\ ecOut' = <<[mixed |-> add_assign_mixed(family, p, other),
                       sum |-> add_assign(family, p, ProjectiveFromAffine(other)),
                       double |-> double_in_place(family, p)]>>
        /\ UNCHANGED <<bnV, bnPc, bnZ2, notEc>>

\* double_in_place of the Jacobian template on any triple, through each of
\* its two branches.
EcDoubleInPlace ==
    /\ ecOp = "none"
    /\ family = "jacobian"
    /\ \E p \in AllTriples :
        /\ ecOp' = "double_in_place"
        /\ ecIn' = <<[p |-> p]>>
        /\ ecOut' = <<[zero_a |-> JacobianDoubleBranch(TRUE, p),
                       general_a |-> JacobianDoubleBranch(FALSE, p),
                       double |-> JacobianDoubleInPlace(p),
                       sum |-> JacobianAddAssign(p, p)]>>
        /\ UNCHANGED <<bnV, bnPc, bnZ2, notEc>>

\* The caller goes on to its next operation.
EcDone ==
    /\ ecOp \notin {"none", "par_batch_normalization"}
    /\ ecOp' = "none"
    /\ ecIn' = << >>
    /\ ecOut' = << >>
    /\ bnV' = << >>
    /\ bnPc' = << >>
    /\ bnZ2' = << >>
    /\ UNCHANGED notEc

InitEC ==
    /\ family \in Families
    /\ curve \in EcCurves
    /\ SerIdle
    /\ CrhIdle
    /\ FsIdle
    /\ PedIdle
    /\ ExtIdle
    /\ EcIdle

NextEC ==
    \/ EcBatchNormalization
    \/ EcAddAssign
    \/ EcMul
    \/ EcEq
    \/ EcAffineOp
    \/ EcIntoAffine
    \/ EcSampleAffine
    \/ EcSampleProjective
    \/ EcGenerator
    \/ EcAddAssignMixed
    \/ EcDoubleInPlace
    \/ EcParStart
    \/ EcParStep
    \/ EcParJoin
    \/ EcDone

SpecEC == InitEC /\ [][NextEC]_vars


(***************************************************************************)
(* Properties of the curve arithmetic (SpecEC)                             *)
(***************************************************************************)

C14_ParallelPassEqualsSerial ==
    /\ (ecOp = "par_batch_normalization" =>
            \A i \in 1 .. Len(bnPc) :
                /\ bnPc[i] \in {"filter", "z2", "x"} => bnV[i] = MontgomeryPasses(ecIn)[i]
                /\ bnPc[i] = "done" => bnV[i] = batch_normalization(family, ecIn)[i])
    /\ (ecOp = "par_batch_normalization_done" =>
            ecOut = batch_normalization(family, ecIn))

\* The second worker is ahead of the first, both inside the closure.
C14_Witness ==
    /\ ecOp = "par_batch_normalization"
    /\ Len(bnPc) = 2
    /\ bnPc[1] = "x"
    /\ bnPc[2] = "z"
    /\ bnV[2].x # ecIn[2].x

\* C15: for every representation of the points, P + O = P and O + P = P;
\* P + (-P) has Z = 0; P + P computed by add_assign equals double(P); and the
\* double of a point with y = 0 is the point at infinity.
C15_GroupLaws ==
    ecOp = "add_assign" =>
        /\ ProjectiveIsZero(ecIn[1].other) => eq(family, ecOut[1].sum, ecIn[1].p)
        /\ ProjectiveIsZero(ecIn[1].p) => eq(family, ecOut[1].sum, ecIn[1].other)
        /\ (~ ProjectiveIsZero(ecIn[1].p) /\ eq(family, ecIn[1].other, ProjectiveNeg(ecIn[1].p)))
              => ecOut[1].sum.z = 0
        /\ eq(family, ecIn[1].p, ecIn[1].other) => eq(family, ecOut[1].sum, ecOut[1].double)
        /\ (~ ProjectiveIsZero(ecIn[1].p) /\ ecIn[1].p.y = 0) => ecOut[1].double.z = 0

\* P + P for a point of order two given with Z outside {0, 1}.
C15_Witness ==
    /\ ecOp = "add_assign"
    /\ ecIn[1].p.z > 1
    /\ ecIn[1].p.y = 0
    /\ ecIn[1].other = ecIn[1].p
    /\ ecOut[1].sum.z = 0

\* The point is in the subgroup of order r: r * P = O.
InPrimeSubgroup(p) ==
    is_in_correct_subgroup_assuming_on_curve(family, into_affine(family, p))

\* C16 as claimed: for all scalars s, t and every point P, s*(t*P) = (s*t)*P
\* and (s+t)*P = s*P + t*P, and the affine and the projective Mul agree.
C16_ScalarMulEveryPoint ==
    ecOp = "mul" =>
        /\ eq(family, ecOut[1].s_tp, ecOut[1].st_p)
        /\ eq(family, ecOut[1].sum_p, ecOut[1].sp_tp)
        /\ eq(family, ecOut[1].affine, ecOut[1].projective)

\* C16 amended: the two scalar laws hold for every point P of the prime-order
\* subgroup; the affine and the projective Mul agree on every point.
C16_ScalarMulInSubgroup ==
    ecOp = "mul" =>
        /\ InPrimeSubgroup(ecIn[1].p) =>
              /\ eq(family, ecOut[1].s_tp, ecOut[1].st_p)
              /\ eq(family, ecOut[1].sum_p, ecOut[1].sp_tp)
        /\ eq(family, ecOut[1].affine, ecOut[1].projective)

\* s * t wraps around the scalar modulus, s has a leading zero bit, and P is a
\* non-zero point of the subgroup given with Z outside {0, 1}.
C16_Witness ==
    /\ ecOp = "mul"
    /\ InPrimeSubgroup(ecIn[1].p)
    /\ ecIn[1].p.z > 1
    /\ ecIn[1].s > 1
    /\ ecIn[1].s * ecIn[1].t > ScalarModulus
    /\ ~ ProjectiveIsZero(ecOut[1].st_p)
    /\ eq(family, ecOut[1].s_tp, ecOut[1].st_p)

AffineInvariant(p) ==
    \/ p.infinity /\ p.x = 0 /\ p.y = 1
    \/ ~ p.infinity /\ FSquare(p.y) = add_b(FAdd(FMul(FSquare(p.x), p.x), mul_by_a(p.x)))

\* C18: every GroupAffine produced by zero, negation, addition, subtraction,
\* doubling, scalar multiplication or conversion from a GroupProjective, from
\* valid operands, satisfies the invariant; a projective point with Z = 0
\* converts to (0, 1, infinity) whatever its X and Y.
C18_AffineInvariantKept ==
    /\ ecOp = "affine" => AffineInvariant(ecOut[1])
    /\ ecOp = "into_affine" =>
          /\ AffineInvariant(ecOut[1])
          /\ ecIn[1].z = 0 => ecOut[1] = AffineZero

\* The conversion of a Z = 0 triple whose X, Y are not (0, 1).
C18_Witness ==
    /\ ecOp = "into_affine"
    /\ ecIn[1].z = 0
    /\ ecIn[1].x # 0
    /\ ecIn[1].y # 1
    /\ ecOut[1] = AffineZero

\* C19: every sampled point, affine or projective, and the prime-subgroup
\* generator are on the curve and in the subgroup of order r.
C19_SamplesInSubgroup ==
    ecOp \in {"sample_affine", "sample_projective", "prime_subgroup_generator"} =>
        /\ is_on_curve(ecOut[1])
        /\ AffineInvariant(ecOut[1])
        /\ is_in_correct_subgroup_assuming_on_curve(family, ecOut[1])

\* An affine sample whose from_x_coordinate point is outside the subgroup and
\* whose cofactor multiple is not the point at infinity.
C19_Witness ==
    /\ ecOp = "sample_affine"
    /\ ~ is_in_correct_subgroup_assuming_on_curve(family,
            from_x_coordinate(ecIn[1].x, ecIn[1].greatest)[1])
    /\ ~ AffineIsZero(ecOut[1])
    /\ is_in_correct_subgroup_assuming_on_curve(family, ecOut[1])


(***************************************************************************)
(* Properties of the Pedersen parameter setup (SpecCRH)                    *)
(***************************************************************************)

\* 2^k * g in the group.
PowerOfTwoMultiple(g, k) == ((2 ^ k) * g) % GroupOrder

\* A row is [g, 2g, 4g, ...] of WINDOW_SIZE entries for the sampled g.
IsWindowOf(row, g) ==
    /\ Len(row) = WINDOW_SIZE
    /\ row[1] = g
    /\ \A j \in 1 .. WINDOW_SIZE : row[j] = PowerOfTwoMultiple(g, j - 1)

\* C20: the tables setup produces (CRH and commitment variants) have
\* NUM_WINDOWS rows of WINDOW_SIZE entries, row i being the successive
\* doublings of the element sampled for it; the commitment variant's
\* random_base is one more such row, from the next sample, and its embedded
\* CRH parameters hold the same bases.
C20_SetupTablesArePowersOfTwo ==
    crhOp \in {"setup", "commitment_setup"} =>
        /\ Len(setupOut[1].bases) = NUM_WINDOWS
        /\ \A i \in 1 .. NUM_WINDOWS : IsWindowOf(setupOut[1].bases[i], setupSamples[i])
        /\ crhOp = "commitment_setup" =>
              /\ IsWindowOf(setupOut[1].random_base, setupSamples[NUM_WINDOWS + 1])
              /\ setupOut[1].crh = setupOut[1].bases

\* A commitment setup whose rows and random_base start from different samples.
C20_Witness ==
    /\ crhOp = "commitment_setup"
    /\ Len(setupOut[1].random_base) = WINDOW_SIZE
    /\ setupOut[1].random_base[1] # setupOut[1].bases[1][1]
    /\ setupOut[1].bases[1][1] # setupOut[1].bases[2][1]
    /\ setupOut[1].bases[1][WINDOW_SIZE] # setupOut[1].bases[1][1]

(***************************************************************************)
(* 5. Pedersen parameter serialization                                     *)
(*    algorithms/src/crh/pedersen_parameters.rs,                           *)
(*    algorithms/src/commitment/pedersen_parameters.rs                     *)
(***************************************************************************)

\* Result of a read at a position of the reader: the value and the position
\* after it, or the first error.
ReadOk(v, pos) == [tag |-> "Ok", kind |-> "", val |-> <<v>>, pos |-> pos]

ReadErr(k, pos) == [tag |-> "Err", kind |-> k, val |-> << >>, pos |-> pos]

\* u32 encoding (utilities crate): four bytes, little-endian.  The bytes of
\* this model stay below 128, so a decoded u32 stays below 2^31.
U32Write(n) ==
    <<n % 256, (n \div 256) % 256, (n \div 65536) % 256, (n \div 16777216) % 256>>

U32Read(bytes, pos) ==
    IF pos + 4 > Len(bytes) THEN ReadErr("UnexpectedEof", pos)
    ELSE ReadOk(bytes[pos + 1] + 256 * bytes[pos + 2] + 65536 * bytes[pos + 3]
                    + 16777216 * bytes[pos + 4], pos + 4)

\* Encoding of a group element G: one byte holding the canonical value.
GWrite(g) == <<g>>

GRead(bytes, pos) ==
    IF pos + 1 > Len(bytes) THEN ReadErr("UnexpectedEof", pos)
    ELSE IF bytes[pos + 1] >= GroupOrder THEN ReadErr("InvalidData", pos)
    ELSE ReadOk(bytes[pos + 1], pos + 1)

\* for g in base { g.write(&mut writer)?; }
RECURSIVE WriteElems(_)
WriteElems(base) ==
    IF base = << >> THEN << >>
    ELSE GWrite(Head(base)) \o WriteElems(Tail(base))

\* A row written without its length.
WriteRowNoLen(base) == WriteElems(base)

\* (base.len() as u32).write(..)?; then the elements of the row.
WriteRow(base) == U32Write(Len(base)) \o WriteElems(base)

RECURSIVE WriteRows(_)
WriteRows(bases) ==
    IF bases = << >> THEN << >>
    ELSE WriteRow(Head(bases)) \o WriteRows(Tail(bases))

\* impl ToBytes for PedersenCRHParameters
PedersenCRHParametersWrite(p) == U32Write(Len(p.bases)) \o WriteRows(p.bases)

\* impl ToBytes for PedersenCommitmentParameters
PedersenCommitmentParametersWrite(p) ==
    U32Write(Len(p.bases)) \o WriteRows(p.bases)
        \o U32Write(Len(p.random_base)) \o WriteElems(p.random_base)
        \o PedersenCRHParametersWrite([bases |-> p.crh])

\* for _ in 0..base_len { let g: G = FromBytes::read(&mut reader)?; base.push(g); }
RECURSIVE ReadElems(_, _, _, _)
ReadElems(bytes, pos, n, base) ==
    IF n = 0 THEN ReadOk(base, pos)
    ELSE LET g == GRead(bytes, pos)
         IN  IF g.tag = "Err" THEN g
             ELSE ReadElems(bytes, g.pos, n - 1, Append(base, g.val[1]))

\* let base_len: u32 = FromBytes::read(&mut reader)?; then the row.
ReadRow(bytes, pos) ==
    LET base_len == U32Read(bytes, pos)
    IN  IF base_len.tag = "Err" THEN base_len
        ELSE ReadElems(bytes, base_len.pos, base_len.val[1], << >>)

\* for _ in 0..num_bases { .. bases.push(base); }
RECURSIVE ReadRows(_, _, _, _)
ReadRows(bytes, pos, n, bases) ==
    IF n = 0 THEN ReadOk(bases, pos)
    ELSE LET base == ReadRow(bytes, pos)
         IN  IF base.tag = "Err" THEN base
             ELSE ReadRows(bytes, base.pos, n - 1, Append(bases, base.val[1]))

\* The parameter structs; the CRH one has `bases` only.
CrhParameters(bases) == [bases |-> bases, random_base |-> << >>, crh |-> << >>]

CommitmentParameters(bases, random_base, crh) ==
    [bases |-> bases, random_base |-> random_base, crh |-> crh]

\* impl FromBytes for PedersenCRHParameters
PedersenCRHParametersRead(bytes, pos) ==
    LET num_bases == U32Read(bytes, pos)
    IN  IF num_bases.tag = "Err" THEN num_bases
        ELSE LET bases == ReadRows(bytes, num_bases.pos, num_bases.val[1], << >>)
             IN  IF bases.tag = "Err" THEN bases
                 ELSE ReadOk(CrhParameters(bases.val[1]), bases.pos)

\* impl FromBytes for PedersenCommitmentParameters
PedersenCommitmentParametersRead(bytes, pos) ==
    LET num_bases == U32Read(bytes, pos)
    IN  IF num_bases.tag = "Err" THEN num_bases
        ELSE LET bases == ReadRows(bytes, num_bases.pos, num_bases.val[1], << >>)
             IN  IF bases.tag = "Err" THEN bases
                 ELSE LET random_base_len == U32Read(bytes, bases.pos)
                      IN  IF random_base_len.tag = "Err" THEN random_base_len
                          ELSE LET random_base == ReadElems(bytes, random_base_len.pos,
                                                            random_base_len.val[1], << >>)
                               IN  IF random_base.tag = "Err" THEN random_base
                                   ELSE LET crh_parameters ==
                                                PedersenCRHParametersRead(bytes, random_base.pos)
                                        IN  IF crh_parameters.tag = "Err" THEN crh_parameters
                                            ELSE ReadOk(
                                                   CommitmentParameters(
                                                       bases.val[1], random_base.val[1],
                                                       crh_parameters.val[1].bases),
                                                   crh_parameters.pos)

ParametersWrite(kind, p) ==
    IF kind = "crh" THEN PedersenCRHParametersWrite(p)
    ELSE PedersenCommitmentParametersWrite(p)

ParametersRead(kind, bytes) ==
    IF kind = "crh" THEN PedersenCRHParametersRead(bytes, 0)
    ELSE PedersenCommitmentParametersRead(bytes, 0)

\* Rows long enough to be told apart, short enough to enumerate.
MaxRowLen == 1

MaxRows == 2

\* Group elements the enumerated rows are made of.
ParElems == {1, GroupOrder - 1}

ParRows == SeqsUpTo(ParElems, MaxRowLen)

\* Tables of bases: every short ragged table, and the first k rows of a table
\* made by setup, for k below, at and above NUM_WINDOWS.
ParBases ==
    SeqsUpTo(ParRows, MaxRows)
        \cup {[i \in 1 .. k |-> Base(WINDOW_SIZE, GRand(seed, i))] :
                k \in 0 .. (NUM_WINDOWS + 1), seed \in 1 .. MaxSeed}

ParValues(kind) ==
    IF kind = "crh" THEN {CrhParameters(bases) : bases \in ParBases}
    ELSE {CommitmentParameters(bases, random_base, crh) :
            bases \in ParBases,
            random_base \in {<< >>, <<1>>, Base(WINDOW_SIZE, GRand(1, NUM_WINDOWS + 1))},
            crh \in {<< >>, <<<<1>>, << >>>>, Setup(1)}}
          \cup {CommitmentSetup(seed) : seed \in 1 .. MaxSeed}

\* Bytes that may follow the encoding in the reader.
ParTrailing == {<< >>, <<7>>}

\* A byte that is no group element, used to damage an encoding.
BadByte == 2 ^ 7 - 1

\* to_bytes: serialize parameters into the reader's buffer.
ParWrite ==
    /\ parOp = "none"
    /\ \E p \in ParValues(parKind), trailing \in ParTrailing :
        /\ parOp' = "write"
        /\ parVal' = <<p>>
        /\ parBuf' = ParametersWrite(parKind, p) \o trailing
        /\ parWritten' = Len(ParametersWrite(parKind, p))
        /\ UNCHANGED <<parKind, parRes, parOut>>
        /\ UNCHANGED notPar

\* The bytes are damaged on their way to the reader: one byte is replaced, or
\* the tail is lost.
ParTamper ==
    /\ parOp = "write"
    /\ \E i \in 1 .. Len(parBuf) :
        /\ parOp' = "tamper"
        /\ parVal' = << >>
        /\ parBuf' \in {[parBuf EXCEPT ![i] = BadByte], SubSeq(parBuf, 1, i - 1)}
        /\ UNCHANGED <<parKind, parWritten, parRes, parOut>>
        /\ UNCHANGED notPar

\* from_bytes on the buffer.
ParRead ==
    /\ parOp \in {"write", "tamper"}
    /\ parOp' = "read"
    /\ parRes' = <<ParametersRead(parKind, parBuf)>>
    /\ UNCHANGED <<parKind, parVal, parBuf, parWritten, parOut>>
    /\ UNCHANGED notPar

\* The parameters read are allocated (alloc_input clones them) and handed to
\* PedersenCRHGadget::check_evaluation_gadget.
ParGadget ==
    /\ parOp = "read"
    /\ parKind = "crh"
    /\ parRes[1].tag = "Ok"
    /\ \E input \in {<< >>, <<1>>} :
        /\ parOp' = "gadget"
        /\ parOut' = <<Outcome(check_evaluation_gadget(<< >>, parRes[1].val[1].bases, input))>>
        /\ UNCHANGED <<parKind, parVal, parBuf, parWritten, parRes>>
        /\ UNCHANGED notPar

InitPar ==
    /\ CoreIdle
    /\ GmIdle
    /\ RcaIdle
    /\ TxIdle
    /\ AbIdle
    /\ parKind \in {"crh", "commitment"}
    /\ parOp = "none"
    /\ parVal = << >>
    /\ parBuf = << >>
    /\ parWritten = 0
    /\ parRes = << >>
    /\ parOut = << >>

NextPar == ParWrite \/ ParTamper \/ ParRead \/ ParGadget

SpecPar == InitPar /\ [][NextPar]_vars

(***************************************************************************)
(* Properties of the Pedersen parameter serialization (SpecPar)            *)
(***************************************************************************)
\* Offset, inside an encoded table, of the length field of row i: the u32 row
\* count and the rows before it.
RECURSIVE RowOffset(_, _)
RowOffset(bases, i) ==
    IF i = 1 THEN 4
    ELSE RowOffset(bases, i - 1) + 4 + Len(bases[i - 1])

\* The bytes from `start` on hold the elements of `base`, in order.
ElemsAt(bytes, start, base) ==
    /\ start + Len(base) <= Len(bytes)
    /\ \A j \in 1 .. Len(base) : bytes[start + j] = base[j]

\* The bytes from `start` on hold a table: u32 row count, then per row a u32
\* row length and that many elements.
TableAt(bytes, start, bases) ==
    /\ U32Read(bytes, start).tag = "Ok"
    /\ U32Read(bytes, start).val[1] = Len(bases)
    /\ \A i \in 1 .. Len(bases) :
        /\ U32Read(bytes, start + RowOffset(bases, i)).tag = "Ok"
        /\ U32Read(bytes, start + RowOffset(bases, i)).val[1] = Len(bases[i])
        /\ ElemsAt(bytes, start + RowOffset(bases, i) + 4, bases[i])

TableLen(bases) == RowOffset(bases, Len(bases) + 1)

\* A read has run on the untouched output of a write.
ReadOfWritten == parOp \in {"read", "gadget"} /\ parVal # << >>

AnnouncedRows == U32Read(parBuf, 0)

\* C22: an encoding whose row count differs from NUM_WINDOWS is a malformed
\* input reported through the result type: reading it returns an error, and
\* the CRH gadget handed such parameters returns Err and does not panic.
C22_RowCountMismatchIsError ==
    /\ (/\ parOp = "read"
        /\ AnnouncedRows.tag = "Ok"
        /\ AnnouncedRows.val[1] # NUM_WINDOWS) => parRes[1].tag = "Err"
    /\ (/\ parOp = "gadget"
        /\ Len(parRes[1].val[1].bases) # NUM_WINDOWS) => parOut[1].tag = "Err"

(***************************************************************************)
(* 6. Synthesis failures in the GM17 verifier gadget and the element       *)
(*    squeeze                                                              *)
(*    gadgets/src/algorithms/snark/gm17.rs,                                *)
(*    marlin/src/fiat_shamir/fiat_shamir_constraints.rs                    *)
(***************************************************************************)

MaxQueryLen == 3

MaxPublicInputs == 4

\* A call of a sub-gadget: the namespace it runs in (with the loop indices
\* its name is formatted from) and what the caller does with its Result:
\* "?" returns the Err, "unwrap" panics on it.
Call(name, i, k, on_err) == [id |-> <<name, i, k>>, on_err |-> on_err]

NoCall == <<"none", 0, 0>>

\* Outcome of a function that returns Result<_, SynthesisError>.
SynthOk == [tag |-> "Ok", kind |-> "", at |-> NoCall]

SynthErr(id) == [tag |-> "Err", kind |-> "SynthesisError", at |-> id]

SynthPanic(kind, id) == [tag |-> "Panic", kind |-> kind, at |-> id]

\* Runs the calls in order; `failing` is the call whose sub-gadget returns
\* Err(SynthesisError).  The first failing call ends the function.
RECURSIVE RunCalls(_, _)
RunCalls(calls, failing) ==
    IF calls = << >> THEN SynthOk
    ELSE IF Head(calls).id = failing
         THEN IF Head(calls).on_err = "?" THEN SynthErr(failing)
              ELSE SynthPanic("unwrap", failing)
         ELSE RunCalls(Tail(calls), failing)

\* public_inputs.by_ref().zip(pvk.query.iter().skip(1)): Zip::next asks the
\* first iterator, then the second, and ends when either is exhausted; an
\* item already taken from the first is dropped.  i counts the pairs the
\* loop body has seen, taken the items taken from public_inputs.
RECURSIVE ZipLoop(_, _, _, _)
ZipLoop(i, taken, num_inputs, query_len) ==
    IF taken >= num_inputs THEN [pairs |-> i, taken |-> taken]
    ELSE IF i >= query_len - 1 THEN [pairs |-> i, taken |-> taken + 1]
    ELSE ZipLoop(i + 1, taken + 1, num_inputs, query_len)

\* The calls of the loop body, for the pairs 0 .. pairs - 1.
RECURSIVE ProcessInputCalls(_, _)
ProcessInputCalls(i, pairs) ==
    IF i >= pairs THEN << >>
    ELSE <<Call("Input", i, 0, "?"), Call("Mul", i, 0, "?")>>
            \o ProcessInputCalls(i + 1, pairs)

\* check_verify from the length assertion to its end.
VerifyCalls ==
    <<Call("A * G^{alpha}", 0, 0, "?"),
      Call("B * H^{beta}", 0, 0, "?"),
      Call("neg 1", 0, 0, "?"),
      Call("First prep", 0, 0, "?"),
      Call("Second prep", 0, 0, "?"),
      Call("Third prep", 0, 0, "?"),
      Call("Fourth prep", 0, 0, "?"),
      Call("Miller loop 1", 0, 0, "?"),
      Call("Final Exp 1", 0, 0, "unwrap"),
      Call("Fifth prep", 0, 0, "?"),
      Call("Negate b", 0, 0, "?"),
      Call("Sixth prep", 0, 0, "?"),
      Call("Miller loop 4", 0, 0, "?"),
      Call("Final Exp 2", 0, 0, "?"),
      Call("GT One", 0, 0, "?"),
      Call("Test 1", 0, 0, "?"),
      Call("Test 2", 0, 0, "?")>>

\* GM17VerifierGadget::check_verify, for a verifying key whose query has
\* query_len elements and an iterator that yields num_inputs public inputs.
\* `assert` tells what the length assertion did.
check_verify(query_len, num_inputs, failing) ==
    LET zip == ZipLoop(0, 0, num_inputs, query_len)
        input_len == 1 + zip.pairs
        head == RunCalls(<<Call("Prepare vk", 0, 0, "?")>>
                            \o ProcessInputCalls(0, zip.pairs), failing)
        next_is_none == zip.taken >= num_inputs
    IN  IF head.tag # "Ok" THEN [out |-> head, assert |-> "not reached"]
        ELSE IF ~(input_len = query_len /\ next_is_none)
             THEN [out |-> SynthPanic("assert", NoCall), assert |-> "failed"]
             ELSE [out |-> RunCalls(VerifyCalls, failing), assert |-> "passed"]

\* The allocations of one squeezed element: alloc_input_{i}_{k}.
RECURSIVE AllocCalls(_, _, _, _)
AllocCalls(i, k, num_elements, num_limbs) ==
    IF i >= num_elements THEN << >>
    ELSE IF k >= num_limbs THEN AllocCalls(i + 1, 0, num_elements, num_limbs)
    ELSE <<Call("alloc_input", i, k, "unwrap")>>
            \o AllocCalls(i, k + 1, num_elements, num_limbs)

RECURSIVE LookupCalls(_, _)
LookupCalls(j, num_bits) ==
    IF j >= num_bits THEN << >>
    ELSE <<Call("get_limbs_representations", j, 0, "?")>> \o LookupCalls(j + 1, num_bits)

\* get_gadgets_and_bits_from_sponge: the calls that return a Result.
SqueezeCalls(num_elements, num_limbs, num_bits) ==
    <<Call("get_booleans_from_sponge", 0, 0, "?")>>
        \o LookupCalls(0, num_bits)
        \o AllocCalls(0, 0, num_elements, num_limbs)

CallIds(calls) == {calls[i].id : i \in 1 .. Len(calls)}

\* The calls a run can fail in.
VerifyFailures ==
    {NoCall} \cup CallIds(<<Call("Prepare vk", 0, 0, "?")>>
                            \o ProcessInputCalls(0, MaxQueryLen - 1) \o VerifyCalls)

SqueezeFailures == {NoCall} \cup CallIds(SqueezeCalls(MaxSqueezeElems, 2, 2))

GmArgs(query_len, num_inputs, num_elements, num_limbs, num_bits, failing) ==
    [query_len |-> query_len, num_inputs |-> num_inputs, num_elements |-> num_elements,
     num_limbs |-> num_limbs, num_bits |-> num_bits, failing |-> failing]

\* A call of GM17VerifierGadget::check_verify.
GmCheckVerify ==
    /\ gmOp = "none"
    /\ \E query_len \in 1 .. MaxQueryLen, num_inputs \in 0 .. MaxPublicInputs,
          failing \in VerifyFailures :
        /\ gmOp' = "check_verify"
        /\ gmIn' = <<GmArgs(query_len, num_inputs, 0, 0, 0, failing)>>
        /\ gmOut' = <<check_verify(query_len, num_inputs, failing)>>
        /\ UNCHANGED notGm

\* A call of get_gadgets_and_bits_from_sponge.
GmSqueeze ==
    /\ gmOp = "none"
    /\ \E num_elements \in 0 .. MaxSqueezeElems, num_limbs \in 1 .. 2, num_bits \in 1 .. 2,
          failing \in SqueezeFailures :
        /\ gmOp' = "get_gadgets_and_bits_from_sponge"
        /\ gmIn' = <<GmArgs(0, 0, num_elements, num_limbs, num_bits, failing)>>
        /\ gmOut' = <<[out |-> RunCalls(SqueezeCalls(num_elements, num_limbs, num_bits), failing),
                       assert |-> "none"]>>
        /\ UNCHANGED notGm

\* The caller goes on with a new constraint system.
GmDone ==
    /\ gmOp # "none"
    /\ gmOp' = "none"
    /\ gmIn' = << >>
    /\ gmOut' = << >>
    /\ UNCHANGED notGm

InitGm ==
    /\ CoreIdle
    /\ ExtIdle

NextGm == GmCheckVerify \/ GmSqueeze \/ GmDone

SpecGm == InitGm /\ [][NextGm]_vars

(***************************************************************************)
(* Properties of the synthesis model (SpecGm)                              *)
(***************************************************************************)
\* The call that fails is one the run makes.
FailingCallMade ==
    /\ gmIn # << >>
    /\ gmIn[1].failing # NoCall
    /\ gmIn[1].failing \in
        (IF gmOp = "check_verify"
         THEN CallIds(<<Call("Prepare vk", 0, 0, "?")>>
                        \o ProcessInputCalls(0, Min(gmIn[1].num_inputs, gmIn[1].query_len - 1))
                        \o VerifyCalls)
         ELSE CallIds(SqueezeCalls(gmIn[1].num_elements, gmIn[1].num_limbs, gmIn[1].num_bits)))

\* C23: gadgets propagate synthesis failures as Err.  Whenever a sub-gadget
\* called by check_verify (the first final exponentiation included) or by
\* get_gadgets_and_bits_from_sponge (the limb allocation included) fails
\* with a SynthesisError, the function returns that Err and does not panic.
\* (A run stopped earlier by the length assertion is left to C24.)
C23_SynthesisFailuresPropagate ==
    (FailingCallMade /\ gmOut[1].assert # "failed") =>
        gmOut[1].out = SynthErr(gmIn[1].failing)

\* C24: the length assertion of check_verify passes if and only if the
\* number of public inputs the iterator supplies equals query.len() - 1; for
\* every other number, fewer or more, one too many included, it fails.
C24_LengthAssertion ==
    (gmOp = "check_verify" /\ gmOut[1].assert # "not reached") =>
        (gmOut[1].assert = "passed" <=> gmIn[1].num_inputs = gmIn[1].query_len - 1)

(***************************************************************************)
(* 7. Ripple-carry adder                                                   *)
(*    gadgets/src/traits/utilities/bits/rca.rs                             *)
(***************************************************************************)

MaxBits == 3

\* Boolean::add (FullAdder): the sum bit and the carry out of a, b and the
\* carry in.
FullAdderSum(a, b, carry) == (a # b) # carry

FullAdderCarry(a, b, carry) == (a /\ b) \/ (carry /\ (a # b))

\* The loop of add_bits with the carry never passed on.
RECURSIVE AddBitsLoopNoCarry(_, _, _, _, _)
AddBitsLoopNoCarry(a, b, i, carry, result) ==
    IF i > Min(Len(a), Len(b)) THEN Append(result, carry)
    ELSE AddBitsLoopNoCarry(a, b, i + 1, carry,
                            Append(result, FullAdderSum(a[i], b[i], carry)))

add_bits_no_carry(a, b) == AddBitsLoopNoCarry(a, b, 1, FALSE, << >>)

\* for (i, (a, b)) in self.iter().zip(other.iter()).enumerate() { .. }, then
\* result.push(carry).
RECURSIVE AddBitsLoop(_, _, _, _, _)
AddBitsLoop(a, b, i, carry, result) ==
    IF i > Min(Len(a), Len(b)) THEN Append(result, carry)
    ELSE AddBitsLoop(a, b, i + 1,
                     FullAdderCarry(a[i], b[i], carry),
                     Append(result, FullAdderSum(a[i], b[i], carry)))

\* RippleCarryAdder::add_bits for Vec<Boolean>
add_bits(a, b) == AddBitsLoop(a, b, 1, FALSE, << >>)

BitVectors == SeqsUpTo(BOOLEAN, MaxBits)

\* self.add_bits(cs, &other)
RcaAddBits ==
    /\ rcaOp = "none"
    /\ \E a \in BitVectors, b \in BitVectors :
        /\ rcaOp' = "add_bits"
        /\ rcaA' = a
        /\ rcaB' = b
        /\ rcaOut' = add_bits(a, b)
        /\ UNCHANGED notRca

\* The caller goes on to its next addition.
RcaDone ==
    /\ rcaOp = "add_bits"
    /\ rcaOp' = "none"
    /\ rcaA' = << >>
    /\ rcaB' = << >>
    /\ rcaOut' = << >>
    /\ UNCHANGED notRca

InitRca ==
    /\ CoreIdle
    /\ ExtIdle

NextRca == RcaAddBits \/ RcaDone

SpecRca == InitRca /\ [][NextRca]_vars

(***************************************************************************)
(* Properties of the ripple-carry adder (SpecRca)                          *)
(***************************************************************************)
Bit(b) == IF b THEN 1 ELSE 0

\* The carry into bit i: what the bits below i of a and b add up to, beyond
\* i - 1 bits.
CarryInto(a, b, i) ==
    (FromBitsLE(SubSeq(a, 1, i - 1)) + FromBitsLE(SubSeq(b, 1, i - 1))) \div (2 ^ (i - 1))

\* C25: ripple-carry addition.  For little-endian bit vectors a and b of the
\* same length n, add_bits returns n + 1 bits whose value is
\* value(a) + value(b); bit i (i < n) is the full-adder sum of a[i], b[i]
\* and the carry from bit i - 1 (initial carry false), and the last bit is
\* the final carry-out.
C25_RippleCarryAddition ==
    (rcaOp = "add_bits" /\ Len(rcaA) = Len(rcaB)) =>
        LET n == Len(rcaA)
        IN  /\ Len(rcaOut) = n + 1
            /\ FromBitsLE(rcaOut) = FromBitsLE(rcaA) + FromBitsLE(rcaB)
            /\ \A i \in 1 .. n :
                Bit(rcaOut[i]) = (Bit(rcaA[i]) + Bit(rcaB[i]) + CarryInto(rcaA, rcaB, i)) % 2
            /\ Bit(rcaOut[n + 1]) = CarryInto(rcaA, rcaB, n + 1)

\* Two vectors of the full length were added, with a carry that ripples
\* through every bit and comes out at the end.
C25_Witness ==
    /\ rcaOp = "add_bits"
    /\ Len(rcaA) = MaxBits
    /\ Len(rcaB) = MaxBits
    /\ \A i \in 2 .. (MaxBits + 1) : CarryInto(rcaA, rcaB, i) = 1
    /\ rcaOut[MaxBits + 1]

(***************************************************************************)
(* 8. Block transactions                                                   *)
(*    dpc/src/block/transactions.rs                                        *)
(***************************************************************************)

MaxTxs == 2

\* What conflicts reads of a TransactionScheme value.
Transaction(network_id, old_serial_numbers, new_commitments, memorandum) ==
    [network_id |-> network_id, old_serial_numbers |-> old_serial_numbers,
     new_commitments |-> new_commitments, memorandum |-> memorandum]

\* The serial numbers and the commitments of a transaction; <<1, 1>> lists a
\* value twice.
IdLists ==
    {[sn |-> <<1, 2>>, cm |-> <<1, 2>>], [sn |-> <<3, 4>>, cm |-> <<3, 4>>],
     [sn |-> <<1, 2>>, cm |-> <<3, 4>>], [sn |-> <<1, 1>>, cm |-> <<3, 4>>],
     [sn |-> <<3, 4>>, cm |-> <<1, 1>>]}

TransactionValues ==
    {Transaction(n, ids.sn, ids.cm, memo) : n \in {1, 2}, ids \in IdLists, memo \in {1, 2}}

\* Vec::contains
Contains(v, x) == \E i \in 1 .. Len(v) : v[i] = x

\* snarkvm_utilities::has_duplicates
has_duplicates(v) == \E i \in 1 .. Len(v) : \E j \in (i + 1) .. Len(v) : v[i] = v[j]

\* The first loop of conflicts: an early `return true` on a different
\* network id, or the serial numbers, commitments and memorandums held.
RECURSIVE HoldingLoop(_, _, _, _, _, _)
HoldingLoop(list, i, transaction, sns, cms, memos) ==
    IF i > Len(list)
    THEN [returned |-> FALSE, holding_serial_numbers |-> sns,
          holding_commitments |-> cms, holding_memos |-> memos]
    ELSE IF list[i].network_id # transaction.network_id
         THEN [returned |-> TRUE, holding_serial_numbers |-> sns,
               holding_commitments |-> cms, holding_memos |-> memos]
         ELSE HoldingLoop(list, i + 1, transaction,
                          sns \o list[i].old_serial_numbers,
                          cms \o list[i].new_commitments,
                          Append(memos, list[i].memorandum))

\* conflicts without its test of the memorandum.
conflicts_no_memo(list, transaction) ==
    LET h == HoldingLoop(list, 1, transaction, << >>, << >>, << >>)
    IN  IF h.returned THEN TRUE
        ELSE IF has_duplicates(transaction.old_serial_numbers) THEN TRUE
        ELSE IF has_duplicates(transaction.new_commitments) THEN TRUE
        ELSE IF \E k \in 1 .. Len(transaction.old_serial_numbers) :
                    Contains(h.holding_serial_numbers, transaction.old_serial_numbers[k])
             THEN TRUE
        ELSE IF \E k \in 1 .. Len(transaction.new_commitments) :
                    Contains(h.holding_commitments, transaction.new_commitments[k])
             THEN TRUE
        ELSE FALSE

\* conflicts without its test for a serial number listed twice.
conflicts_no_duplicates(list, transaction) ==
    LET h == HoldingLoop(list, 1, transaction, << >>, << >>, << >>)
    IN  IF h.returned THEN TRUE
        ELSE IF has_duplicates(transaction.new_commitments) THEN TRUE
        ELSE IF Contains(h.holding_memos, transaction.memorandum) THEN TRUE
        ELSE IF \E k \in 1 .. Len(transaction.old_serial_numbers) :
                    Contains(h.holding_serial_numbers, transaction.old_serial_numbers[k])
             THEN TRUE
        ELSE IF \E k \in 1 .. Len(transaction.new_commitments) :
                    Contains(h.holding_commitments, transaction.new_commitments[k])
             THEN TRUE
        ELSE FALSE

\* Transactions::conflicts
conflicts(list, transaction) ==
    LET h == HoldingLoop(list, 1, transaction, << >>, << >>, << >>)
    IN  IF h.returned THEN TRUE
        ELSE IF has_duplicates(transaction.old_serial_numbers) THEN TRUE
        ELSE IF has_duplicates(transaction.new_commitments) THEN TRUE
        ELSE IF Contains(h.holding_memos, transaction.memorandum) THEN TRUE
        ELSE IF \E k \in 1 .. Len(transaction.old_serial_numbers) :
                    Contains(h.holding_serial_numbers, transaction.old_serial_numbers[k])
             THEN TRUE
        ELSE IF \E k \in 1 .. Len(transaction.new_commitments) :
                    Contains(h.holding_commitments, transaction.new_commitments[k])
             THEN TRUE
        ELSE FALSE

\* Transactions::push
push(list, transaction) == Append(list, transaction)

\* Transactions::new
TxNew ==
    /\ txOp # "new"
    /\ txs' = << >>
    /\ txOp' = "new"
    /\ txArg' = << >>
    /\ txRes' = << >>
    /\ txChecked' = TRUE
    /\ UNCHANGED notTx

\* self.conflicts(&transaction)
TxConflicts ==
    \E transaction \in TransactionValues :
        /\ txOp' = "conflicts"
        /\ txArg' = <<transaction>>
        /\ txRes' = <<conflicts(txs, transaction)>>
        /\ UNCHANGED <<txs, txChecked, notTx>>

\* self.push(transaction)
TxPush ==
    /\ Len(txs) < MaxTxs
    /\ \E transaction \in TransactionValues :
        /\ txs' = push(txs, transaction)
        /\ txOp' = "push"
        /\ txArg' = <<transaction>>
        /\ txRes' = << >>
        /\ txChecked' = (/\ txChecked
                         /\ txOp = "conflicts"
                         /\ txArg = <<transaction>>
                         /\ txRes = <<FALSE>>)
        /\ UNCHANGED notTx

InitTx ==
    /\ CoreIdle
    /\ ExtIdle

NextTx == TxNew \/ TxConflicts \/ TxPush

SpecTx == InitTx /\ [][NextTx]_vars

(***************************************************************************)
(* Properties of the transaction list (SpecTx)                             *)
(***************************************************************************)
Elems(v) == {v[i] : i \in 1 .. Len(v)}

\* v lists some value more than once.
ListsTwice(v) == Cardinality(Elems(v)) < Len(v)

DifferentNetwork(list, tx) == \E t \in Elems(list) : t.network_id # tx.network_id

SameMemorandum(list, tx) == \E t \in Elems(list) : t.memorandum = tx.memorandum

SharedSerialNumber(list, tx) ==
    \E t \in Elems(list) : Elems(t.old_serial_numbers) \cap Elems(tx.old_serial_numbers) # {}

SharedCommitment(list, tx) ==
    \E t \in Elems(list) : Elems(t.new_commitments) \cap Elems(tx.new_commitments) # {}

RECURSIVE AllSerialNumbers(_)
AllSerialNumbers(list) ==
    IF list = << >> THEN << >>
    ELSE Head(list).old_serial_numbers \o AllSerialNumbers(Tail(list))

RECURSIVE AllCommitments(_)
AllCommitments(list) ==
    IF list = << >> THEN << >>
    ELSE Head(list).new_commitments \o AllCommitments(Tail(list))

\* C29: starting from an empty list, if every transaction is pushed only
\* when conflicts(tx) has just returned false, then in every reachable list
\* all transactions share one network id, their memorandums are pairwise
\* distinct, and no serial number and no commitment occurs twice anywhere in
\* the list, neither inside one transaction nor across two.
C29_CheckedListIsConflictFree ==
    txChecked =>
        /\ \A i, j \in 1 .. Len(txs) : txs[i].network_id = txs[j].network_id
        /\ \A i, j \in 1 .. Len(txs) : i # j => txs[i].memorandum # txs[j].memorandum
        /\ ~ListsTwice(AllSerialNumbers(txs))
        /\ ~ListsTwice(AllCommitments(txs))

\* A list of the full length built by checked pushes.
C29_Witness ==
    /\ txChecked
    /\ txOp = "push"
    /\ Len(txs) = MaxTxs

(***************************************************************************)
(* Properties of mixed addition and of doubling (SpecEC)                   *)
(***************************************************************************)
\* C27: mixed addition agrees with general addition.  In both coordinate
\* families, for every representation of P and every affine Q on the curve,
\* add_assign_mixed(P, Q) is a point equal to add_assign(P, Q in Z = 1 form):
\* with Q infinity P is unchanged, with P infinity the result is Q with
\* Z = 1, with P = Q it is the double of P, with P = -Q it has Z = 0.
C27_MixedAgreesWithGeneral ==
    ecOp = "add_assign_mixed" =>
        LET p == ecIn[1].p
            other == ecIn[1].other
            q == ProjectiveFromAffine(other)
            mixed == ecOut[1].mixed
        IN  /\ eq(family, mixed, ecOut[1].sum)
            /\ AffineIsZero(other) => mixed = p
            /\ (~ AffineIsZero(other) /\ ProjectiveIsZero(p))
                  => mixed = NewProjective(other.x, other.y, 1)
            /\ (~ ProjectiveIsZero(p) /\ eq(family, p, q)) => eq(family, mixed, ecOut[1].double)
            /\ (~ ProjectiveIsZero(p) /\ eq(family, p, ProjectiveNeg(q))) => mixed.z = 0

\* P given with Z outside {0, 1} and Q = P of order above two: the mixed
\* addition doubles.
C27_Witness ==
    /\ ecOp = "add_assign_mixed"
    /\ ecIn[1].p.z > 1
    /\ ~ AffineIsZero(ecIn[1].other)
    /\ eq(family, ecIn[1].p, ProjectiveFromAffine(ecIn[1].other))
    /\ ecOut[1].mixed.z # 0

\* The triple is the point at infinity or represents a point of the curve.
OnCurveTriple(p) == p.z = 0 \/ is_on_curve(AffineOf("jacobian", p))

\* P + P by the tangent rule on affine coordinates.
TangentDouble(q) ==
    IF AffineIsZero(q) \/ q.y = 0 THEN AffineZero
    ELSE LET lambda == FMul(FAdd(FMul(3, FSquare(q.x)), curve.a), FInverse(FDouble(q.y)))
             x3 == FSub(FSquare(lambda), FDouble(q.x))
         IN  NewAffine(x3, FSub(FMul(lambda, FSub(q.x, x3)), q.y), FALSE)

\* The triple r represents the double of the point the triple p represents.
IsDoubleOf(r, p) ==
    LET d == TangentDouble(IF p.z = 0 THEN AffineZero ELSE AffineOf("jacobian", p))
    IN  /\ OnCurveTriple(r)
        /\ IF r.z = 0 THEN AffineIsZero(d)
           ELSE ~ AffineIsZero(d) /\ AffineOf("jacobian", r) = d

\* C30: the two branches of Jacobian double_in_place agree.  On a curve with
\* a = 0 and for every triple (X, Y, Z), the a = 0 formula yields exactly
\* the (X', Y', Z') of the general formula; in both branches a triple with
\* Z = 0 is left unchanged, and the double of an on-curve point is an
\* on-curve point equal to P + P.
C30_DoubleBranchesAgree ==
    ecOp = "double_in_place" =>
        LET p == ecIn[1].p
            o == ecOut[1]
        IN  /\ curve.a = 0 => o.zero_a = o.general_a
            /\ p.z = 0 => (o.zero_a = p /\ o.general_a = p)
            /\ OnCurveTriple(p) =>
                /\ IsDoubleOf(o.general_a, p)
                /\ curve.a = 0 => IsDoubleOf(o.zero_a, p)
                /\ JacobianEq(o.double, o.sum)

\* On a curve with a = 0, an on-curve point given with Z outside {0, 1} whose
\* double is not the point at infinity.
C30_Witness ==
    /\ ecOp = "double_in_place"
    /\ curve.a = 0
    /\ ecIn[1].p.z > 1
    /\ OnCurveTriple(ecIn[1].p)
    /\ ecOut[1].zero_a.z # 0
    /\ ecOut[1].zero_a # ecIn[1].p

(***************************************************************************)
(* Properties of absorb_bytes of the gadget rng (SpecFS)                   *)
(***************************************************************************)
\* The bytes read as one number, the first byte the most significant.
RECURSIVE BigEndianValue(_)
BigEndianValue(bytes) ==
    IF bytes = << >> THEN 0
    ELSE BigEndianValue(SubSeq(bytes, 1, Len(bytes) - 1)) * 256 + bytes[Len(bytes)]

\* The bytes read as one number, the first byte the least significant.
RECURSIVE LittleEndianValue(_)
LittleEndianValue(bytes) ==
    IF bytes = << >> THEN 0
    ELSE Head(bytes) + 256 * LittleEndianValue(Tail(bytes))

ElementCount(bytes, c) == (8 * Len(bytes) + c - 1) \div c

\* Chunk k of c bits of the stream that takes each byte's bits least
\* significant first, packed with its first bit the least significant.
LittleEndianElement(bytes, c, k) ==
    (LittleEndianValue(bytes) \div (2 ^ ((k - 1) * c))) % (2 ^ c)

\* Chunk k of c bits of the stream that takes each byte's bits most
\* significant first, packed with its last bit the least significant.
BigEndianElement(bytes, c, k) ==
    LET end == Min(k * c, 8 * Len(bytes))
    IN  (BigEndianValue(bytes) \div (2 ^ (8 * Len(bytes) - end))) % (2 ^ (end - (k - 1) * c))

\* a * b = c holds with the allocated variable set to v.
ConstraintHolds(cf, constraint, bits, v) ==
    (SumSetTerms(cf, constraint.a, bits, 1, Len(constraint.a))
        * SumSetTerms(cf, constraint.b, bits, 1, Len(constraint.b))) % cf
    = (SumSetTerms(cf, constraint.c, bits, 1, Len(constraint.c)) + cf - v) % cf

\* One constraint per element, on that element, met by exactly its value.
ElementsConstrained(cf, run) ==
    /\ Len(run.constraints) = Len(run.gadgets)
    /\ \A i \in 1 .. Len(run.gadgets) :
        /\ run.constraints[i].minus = i
        /\ \A v \in 0 .. (cf - 1) :
            ConstraintHolds(cf, run.constraints[i], run.bits, v) <=> v = run.gadgets[i]

\* Exactly one sponge absorb, of the allocated elements in order.
OneAbsorb(run) == run.absorbs = <<run.gadgets>>

\* Inputs of the same length absorbed as the same elements are equal.
AbsorbInjective ==
    abOut[1].run.gadgets = abOut[1].other.gadgets => abIn[1].bytes = abIn[1].other

\* C28 (as stated): absorb_bytes on n bytes takes each byte's bits
\* little-endian, regroups the stream into chunks of c = bitlen(native) - 1
\* bits, packs each chunk into one element, absorbs these ceil(8n/c) elements
\* in one sponge absorb, constrains each element to its packing, and is
\* injective on inputs of the same length.
C28_AbsorbBytesLittleEndian ==
    abOut # << >> =>
        LET cf == abIn[1].cf
            c == BitLen(cf) - 1
            run == abOut[1].run
        IN  /\ Len(run.gadgets) = ElementCount(abIn[1].bytes, c)
            /\ \A k \in 1 .. Len(run.gadgets) :
                run.gadgets[k] = LittleEndianElement(abIn[1].bytes, c, k)
            /\ OneAbsorb(run)
            /\ ElementsConstrained(cf, run)
            /\ AbsorbInjective

\* C28 (amended): absorb_bytes on n bytes takes each byte's bits most
\* significant first, regroups the stream into chunks of
\* c = bitlen(native) - 1 bits, packs each chunk big-endian into one element,
\* absorbs these ceil(8n/c) elements in one sponge absorb, constrains each
\* element to its packing, and is injective on inputs of the same length.
C28_AbsorbBytesBigEndian ==
    abOut # << >> =>
        LET cf == abIn[1].cf
            c == BitLen(cf) - 1
            run == abOut[1].run
        IN  /\ Len(run.gadgets) = ElementCount(abIn[1].bytes, c)
            /\ \A k \in 1 .. Len(run.gadgets) :
                run.gadgets[k] = BigEndianElement(abIn[1].bytes, c, k)
            /\ OneAbsorb(run)
            /\ ElementsConstrained(cf, run)
            /\ AbsorbInjective

\* Two bytes over a capacity of 5 bits: four elements, the second of which
\* holds bits of both bytes, absorbed in one call.
C28_Witness ==
    /\ abOut # << >>
    /\ abIn[1].cf = 61
    /\ abIn[1].bytes = <<1, 181>>
    /\ abIn[1].other # abIn[1].bytes
    /\ abOut[1].run.gadgets = <<0, 6, 26, 1>>
    /\ Len(abOut[1].run.absorbs) = 1

====
